---- MODULE Spec2Model ----
(***************************************************************************)
(* A model of fgb-vt: FlatGeobuf -> Mapbox Vector Tile materialisation.    *)
(*                                                                         *)
(* The module holds several specifications over one set of variables:      *)
(*   SpecTile   the multi-source orchestrator (pipeline)                   *)
(*   SpecIndex  the packed R-tree query (fgb/index queryIndex)             *)
(*   SpecMerge  the range merger (fgb/index mergeRanges)                   *)
(*   SpecProps  the property stream decoder (fgb/feature)                  *)
(*   SpecPbf    the PBF encoder (pbf/writer, pbf/encode) and a reader      *)
(* Each specification leaves the variables of the others at their idle     *)
(* value.                                                                  *)
(***************************************************************************)
EXTENDS Integers, Sequences, FiniteSets, TLC

VARIABLES
    \* ---- SpecTile: one processMultiConnectorTile request
    groups,     \* the ConnectorSourceGroup[] argument: a sequence of sequences of source names
    cfg,        \* per source name: zoom range, cache entry supplied?, the FGB file behind its path
    pc,         \* per source name: where its processSource call stands
    calls,      \* per source name: the connector calls issued so far, in order
    initLen,    \* per source name: initialBytes.length, once the first read has returned
    outcome,    \* per source name: the settled value of its processSource promise
    tile,       \* the promise returned by processMultiConnectorTile
    \* ---- SpecIndex: one queryIndex call
    qin,        \* its arguments
    qout,       \* its result
    \* ---- SpecMerge: one mergeRanges call
    min,        \* its argument
    mout,       \* its result
    \* ---- SpecProps: one decodeProperties call
    pin,        \* columns and property bytes
    pout,       \* its result
    \* ---- SpecPbf: encodePbf([L]) and a reader
    lin,        \* the layer L
    lbuf,       \* the encoded bytes
    lout,       \* what a conforming reader decodes
    \* ---- the specifications of one call of a pure function
    fin,        \* its arguments
    fout,       \* its result
    \* ---- SpecRanges: one readRanges call of a connector
    rr          \* the ranges, the reads in flight and the promise

tileVars  == <<groups, cfg, pc, calls, initLen, outcome, tile>>
indexVars == <<qin, qout>>
mergeVars == <<min, mout>>
propsVars == <<pin, pout>>
pbfVars   == <<lin, lbuf, lout>>
callVars  == <<fin, fout, rr>>
vars      == <<tileVars, indexVars, mergeVars, propsVars, pbfVars, callVars>>

Idle == "idle"

Min2(a, b) == IF a < b THEN a ELSE b
Max2(a, b) == IF a > b THEN a ELSE b
Last(s)    == s[Len(s)]
Front(s)   == SubSeq(s, 1, Len(s) - 1)

\* states that arise one after the other, in program order; the last is the result
Then(steps) == steps[Len(steps)]

RECURSIVE Flatten(_)
Flatten(ss) == IF ss = <<>> THEN <<>> ELSE Head(ss) \o Flatten(Tail(ss))

(***************************************************************************)
(* JavaScript numbers in the PBF writer.                                    *)
(* A non-negative integer is held as its ten base-128 digits, least         *)
(* significant first, so that values up to 2^64 can be written down.        *)
(***************************************************************************)
NDigits == 10

Pow128 == <<1, 128, 16384, 2097152, 268435456>>

\* the digits of 0 <= n < 2^31
Dig(n) == [i \in 1..NDigits |-> IF i <= 5 THEN (n \div Pow128[i]) % 128 ELSE 0]

\* a value below 2^31 as an integer
Fits31(d) == d[5] < 8 /\ \A i \in 6..NDigits : d[i] = 0
Num(d)    == d[1] + d[2] * 128 + d[3] * 16384 + d[4] * 2097152 + d[5] * 268435456

\* ToUint32(val) >>> 7 : only bits 7..31 of the value survive
Shr7U32(d) == [i \in 1..NDigits |->
                 IF i <= 3 THEN d[i + 1] ELSE IF i = 4 THEN d[5] % 16 ELSE 0]

\* val >>>= 7 as PbfWriter.writeVarint performs it
ShiftRight7(d) == Shr7U32(d)

\* val > 0x7f
Above7f(d) == \E i \in 2..NDigits : d[i] # 0

\* the bytes the loop of writeVarint appends for a non-negative value
RECURSIVE VarintBytes(_)
VarintBytes(d) ==
    IF Above7f(d)
    THEN <<d[1] + 128>> \o VarintBytes(ShiftRight7(d))
    ELSE <<d[1]>>

\* writeBigVarint for a negative value v of the int32 range: the ten bytes of
\* the 64-bit two's complement of v
WriteBigVarintBytes(v) ==
    [i \in 1..10 |->
        IF i <= 4 THEN ((v \div Pow128[i]) % 128) + 128
        ELSE IF i = 5 THEN ((v \div Pow128[5]) % 8) + 120 + 128
        ELSE IF i <= 9 THEN 127 + 128
        ELSE 1]

\* varintSize(val) for a value below 2^31
varintSize(val) ==
    IF val < 0 THEN 10
    ELSE IF val < 128 THEN 1
    ELSE IF val < 16384 THEN 2
    ELSE IF val < 2097152 THEN 3
    ELSE IF val < 268435456 THEN 4
    ELSE 5

(***************************************************************************)
(* PbfWriter: buf[0..pos) and the stack of length placeholder positions.    *)
(***************************************************************************)
NewWriter == [buf |-> <<>>, lengthStack |-> <<>>]

Put(w, bytes) == [w EXCEPT !.buf = @ \o bytes]

\* writeVarint(val), val >= 0 given by its digits
writeVarint(w, d) == Put(w, VarintBytes(d))

\* writeVarint(val), val < 0
writeVarintNeg(w, v) == Put(w, WriteBigVarintBytes(v))

\* val << 1 alone, for an int32 val of the range -2^30 .. 2^30 - 1
ShiftLeft1Int32(val) == 2 * val

\* (val << 1) ^ (val >> 31) on an int32 val, as an int32
ZigzagInt32(val) ==
    IF val >= 0
    THEN IF val < 1073741824 THEN 2 * val
         ELSE 2 * (val - 1073741824) - 1073741824 - 1073741824
    ELSE IF val >= -1073741824 THEN 1 - 2 * (val + 1)
         ELSE (-2 * (val + 1073741824)) - 1073741824 - 1073741824 - 1

writeSVarint(w, val) ==
    LET z == ZigzagInt32(val)
    IN  IF z < 0 THEN writeVarintNeg(w, z) ELSE writeVarint(w, Dig(z))

writeTag(w, fieldNum, wireType) == writeVarint(w, Dig(fieldNum * 8 + wireType))

writeString(w, str) == Put(writeVarint(w, Dig(Len(str))), str)

writeVarintField(w, fieldNum, d)    == writeVarint(writeTag(w, fieldNum, 0), d)
writeSVarintField(w, fieldNum, val) == writeSVarint(writeTag(w, fieldNum, 0), val)
writeDoubleField(w, fieldNum, b8)   == Put(writeTag(w, fieldNum, 1), b8)
writeStringField(w, fieldNum, str)  == writeString(writeTag(w, fieldNum, 2), str)
writeBoolField(w, fieldNum, b)      == writeVarintField(w, fieldNum, Dig(IF b THEN 1 ELSE 0))

RECURSIVE SumVarintSize(_)
SumVarintSize(values) ==
    IF values = <<>> THEN 0 ELSE varintSize(Head(values)) + SumVarintSize(Tail(values))

RECURSIVE PutVarints(_, _)
PutVarints(w, values) ==
    IF values = <<>> THEN w
    ELSE Then(<<w, PutVarints(writeVarint(w, Dig(Head(values))), Tail(values))>>)

writePackedVarint(w, fieldNum, values) ==
    IF Len(values) = 0 THEN w
    ELSE PutVarints(writeVarint(writeTag(w, fieldNum, 2), Dig(SumVarintSize(values))), values)

beginMessage(w, fieldNum) ==
    LET t == writeTag(w, fieldNum, 2)
    IN  [buf |-> t.buf \o <<0, 0, 0, 0, 0>>,
         lengthStack |-> Append(t.lengthStack, Len(t.buf))]

\* buf.copyWithin(target, start, end) restricted to buf[0..pos), 0-based positions
copyWithin(buf, target, start, end) ==
    [i \in 1..Len(buf) |->
        IF i - 1 >= target /\ i - 1 < target + (end - start)
        THEN buf[(i - 1 - target) + start + 1]
        ELSE buf[i]]

\* the bytes of `vb` written over buf from the 0-based position p on
Overwrite(buf, p, vb) ==
    [i \in 1..Len(buf) |->
        IF i - 1 >= p /\ i - 1 < p + Len(vb) THEN vb[i - p] ELSE buf[i]]

endMessage(w) ==
    LET placeholderPos == Last(w.lengthStack)
        pos            == Len(w.buf)
        messageLen     == pos - placeholderPos - 5
        lenSize        == varintSize(messageLen)
        shifted        == IF lenSize < 5
                          THEN SubSeq(copyWithin(w.buf, placeholderPos + lenSize,
                                                 placeholderPos + 5, pos),
                                      1, pos - (5 - lenSize))
                          ELSE w.buf
    IN  [buf |-> Overwrite(shifted, placeholderPos, VarintBytes(Dig(messageLen))),
         lengthStack |-> Front(w.lengthStack)]

finish(w) == w.buf


(***************************************************************************)
(* encodePbf and the writers of Tile.Layer, Tile.Feature and Tile.Value.    *)
(* A layer is [name, extent, keys, values, features]; strings are sequences *)
(* of ASCII codes; a value is [type, s, n, b] with the string, the eight    *)
(* IEEE bytes of a double or the digits of a uint in s, an int in n and a   *)
(* bool in b; a feature is [id, type, geometry, tags] with id = [has, d].   *)
(***************************************************************************)
writeValue(w, value) ==
    LET m == beginMessage(w, 4)
        body == CASE value.type = "string" -> writeStringField(m, 1, value.s)
                  [] value.type = "double" -> writeDoubleField(m, 3, value.s)
                  [] value.type = "int"    -> writeSVarintField(m, 6, value.n)
                  [] value.type = "uint"   -> writeVarintField(m, 5, value.s)
                  [] value.type = "bool"   -> writeBoolField(m, 7, value.b)
                  [] OTHER                 -> m
    IN  endMessage(Then(<<m, body>>))

writeFeature(w, feature) ==
    LET m  == beginMessage(w, 2)
        a  == IF feature.id.has THEN writeVarintField(m, 1, feature.id.d) ELSE m
        b  == IF Len(feature.tags) > 0 THEN writePackedVarint(a, 2, feature.tags) ELSE a
        c  == writeVarintField(b, 3, Dig(feature.type))
        d  == IF Len(feature.geometry) > 0 THEN writePackedVarint(c, 4, feature.geometry) ELSE c
    IN  endMessage(Then(<<m, a, b, c, d>>))

RECURSIVE WriteEach(_, _, _)
WriteEach(w, items, kind) ==
    IF items = <<>> THEN w
    ELSE Then(<<w, WriteEach(CASE kind = "key"     -> writeStringField(w, 3, Head(items))
                               [] kind = "value"   -> writeValue(w, Head(items))
                               [] kind = "feature" -> writeFeature(w, Head(items)),
                             Tail(items), kind)>>)

writeLayer(w, layer) ==
    LET m == beginMessage(w, 3)
        a == writeVarintField(m, 15, Dig(2))
        b == writeStringField(a, 1, layer.name)
        c == writeVarintField(b, 5, Dig(layer.extent))
        d == WriteEach(c, layer.keys, "key")
        e == WriteEach(d, layer.values, "value")
        f == WriteEach(e, layer.features, "feature")
    IN  endMessage(Then(<<m, a, b, c, d, e, f>>))

RECURSIVE WriteLayers(_, _)
WriteLayers(w, layers) ==
    IF layers = <<>> THEN w
    ELSE Then(<<w, WriteLayers(writeLayer(w, Head(layers)), Tail(layers))>>)

encodePbf(layers) == finish(WriteLayers(NewWriter, layers))


(***************************************************************************)
(* A conforming protobuf / MVT 2.1 reader, used to state what the encoded   *)
(* bytes mean.  Positions are 1-based.                                      *)
(***************************************************************************)
\* the number of bytes of the varint that starts at p, or 0 when none ends
\* within ten bytes
VarintLen(b, p) ==
    LET ends == {j \in 1..10 : p + j - 1 <= Len(b) /\ b[p + j - 1] < 128}
    IN  IF ends = {} THEN 0 ELSE CHOOSE j \in ends : \A k \in ends : j <= k

ReadVarint(b, p) ==
    LET n == VarintLen(b, p)
    IN  [d |-> [i \in 1..NDigits |-> IF i <= n THEN b[p + i - 1] % 128 ELSE 0]]

Malformed == [f |-> -1, wt |-> 0, d |-> Dig(0), bytes |-> <<>>]

\* the fields of a message: [f, wt, d, bytes]; a trailing Malformed marks bytes
\* that are no protobuf
RECURSIVE ParseFields(_, _)
ParseFields(b, p) ==
    IF p > Len(b) THEN <<>>
    ELSE LET tl == VarintLen(b, p)
             td == ReadVarint(b, p).d
         IN  IF tl = 0 \/ ~Fits31(td) THEN <<Malformed>>
             ELSE LET tag == Num(td)
                      f   == tag \div 8
                      wt  == tag % 8
                      q   == p + tl
                  IN  CASE wt = 0 ->
                             LET vl == VarintLen(b, q)
                             IN  IF vl = 0 THEN <<Malformed>>
                                 ELSE <<[f |-> f, wt |-> 0, d |-> ReadVarint(b, q).d, bytes |-> <<>>]>>
                                      \o ParseFields(b, q + vl)
                        [] wt = 1 ->
                             IF q + 7 > Len(b) THEN <<Malformed>>
                             ELSE <<[f |-> f, wt |-> 1, d |-> Dig(0), bytes |-> SubSeq(b, q, q + 7)]>>
                                  \o ParseFields(b, q + 8)
                        [] wt = 5 ->
                             IF q + 3 > Len(b) THEN <<Malformed>>
                             ELSE <<[f |-> f, wt |-> 5, d |-> Dig(0), bytes |-> SubSeq(b, q, q + 3)]>>
                                  \o ParseFields(b, q + 4)
                        [] wt = 2 ->
                             LET ll == VarintLen(b, q)
                                 ld == ReadVarint(b, q).d
                             IN  IF ll = 0 \/ ~Fits31(ld) THEN <<Malformed>>
                                 ELSE IF q + ll + Num(ld) - 1 > Len(b) THEN <<Malformed>>
                                 ELSE <<[f |-> f, wt |-> 2, d |-> Dig(0),
                                         bytes |-> SubSeq(b, q + ll, q + ll + Num(ld) - 1)]>>
                                      \o ParseFields(b, q + ll + Num(ld))
                        [] OTHER -> <<Malformed>>

FieldsOf(fs, f, wt) == SelectSeq(fs, LAMBDA x : x.f = f /\ x.wt = wt)
WellFormed(fs)      == \A i \in 1..Len(fs) : fs[i].f # -1

\* a packed repeated varint field as the sequence of its values' digits
RECURSIVE Unpack(_, _)
Unpack(b, p) ==
    IF p > Len(b) \/ VarintLen(b, p) = 0 THEN <<>>
    ELSE <<ReadVarint(b, p).d>> \o Unpack(b, p + VarintLen(b, p))

RECURSIVE UnpackAll(_)
UnpackAll(fs) == IF fs = <<>> THEN <<>> ELSE Unpack(Head(fs).bytes, 1) \o UnpackAll(Tail(fs))

\* sint64: (z >>> 1) XOR -(z AND 1); big marks a value outside the int32 range
Unzigzag(d) ==
    IF Fits31(d)
    THEN [big |-> FALSE, n |-> IF d[1] % 2 = 0 THEN Num(d) \div 2 ELSE -((Num(d) - 1) \div 2) - 1]
    ELSE [big |-> TRUE, n |-> 0]

ReadValue(b) ==
    LET fs == ParseFields(b, 1)
        x  == fs[1]
    IN  IF fs = <<>> \/ ~WellFormed(fs) THEN [type |-> "none", s |-> <<>>, n |-> 0, b |-> FALSE]
        ELSE CASE x.f = 1 /\ x.wt = 2 -> [type |-> "string", s |-> x.bytes, n |-> 0, b |-> FALSE]
               [] x.f = 3 /\ x.wt = 1 -> [type |-> "double", s |-> x.bytes, n |-> 0, b |-> FALSE]
               [] x.f = 5 /\ x.wt = 0 -> [type |-> "uint", s |-> x.d, n |-> 0, b |-> FALSE]
               [] x.f = 6 /\ x.wt = 0 ->
                    IF Unzigzag(x.d).big
                    THEN [type |-> "bigint", s |-> x.d, n |-> 0, b |-> FALSE]
                    ELSE [type |-> "int", s |-> <<>>, n |-> Unzigzag(x.d).n, b |-> FALSE]
               [] x.f = 7 /\ x.wt = 0 -> [type |-> "bool", s |-> <<>>, n |-> 0, b |-> x.d # Dig(0)]
               [] OTHER -> [type |-> "none", s |-> <<>>, n |-> 0, b |-> FALSE]

ReadFeature(b) ==
    LET fs  == ParseFields(b, 1)
        ids == FieldsOf(fs, 1, 0)
        ty  == FieldsOf(fs, 3, 0)
    IN  [ok       |-> WellFormed(fs),
         id       |-> IF ids = <<>> THEN [has |-> FALSE, d |-> Dig(0)]
                      ELSE [has |-> TRUE, d |-> Last(ids).d],
         type     |-> IF ty = <<>> THEN Dig(0) ELSE Last(ty).d,
         tags     |-> UnpackAll(FieldsOf(fs, 2, 2)),
         geometry |-> UnpackAll(FieldsOf(fs, 4, 2))]

ReadLayer(b) ==
    LET fs == ParseFields(b, 1)
        nm == FieldsOf(fs, 1, 2)
        ex == FieldsOf(fs, 5, 0)
        ks == FieldsOf(fs, 3, 2)
        vs == FieldsOf(fs, 4, 2)
        ft == FieldsOf(fs, 2, 2)
    IN  [ok       |-> WellFormed(fs),
         name     |-> IF nm = <<>> THEN <<>> ELSE Last(nm).bytes,
         extent   |-> IF ex = <<>> THEN Dig(4096) ELSE Last(ex).d,
         keys     |-> [i \in 1..Len(ks) |-> ks[i].bytes],
         values   |-> [i \in 1..Len(vs) |-> ReadValue(vs[i].bytes)],
         features |-> [i \in 1..Len(ft) |-> ReadFeature(ft[i].bytes)]]

ReadTile(b) ==
    LET fs == ParseFields(b, 1)
        ls == FieldsOf(fs, 3, 2)
    IN  [ok |-> WellFormed(fs), layers |-> [i \in 1..Len(ls) |-> ReadLayer(ls[i].bytes)]]


(***************************************************************************)
(* SpecPbf: encodePbf([L]) for a layer L, then a reader on the result.      *)
(***************************************************************************)
MaxFeatures == 1

Str(s, n, b, t) == [type |-> t, s |-> s, n |-> n, b |-> b]
StringValue(s) == Str(s, 0, FALSE, "string")
DoubleValue(b8) == Str(b8, 0, FALSE, "double")
UintValue(d)  == Str(d, 0, FALSE, "uint")
IntValue(n)   == Str(<<>>, n, FALSE, "int")
BoolValue(b)  == Str(<<>>, 0, b, "bool")

\* 2^32 and 2^32 + 5 : ids and uint values that need more than 32 bits
TwoTo32      == [i \in 1..NDigits |-> IF i = 5 THEN 16 ELSE 0]
TwoTo32Plus5 == [i \in 1..NDigits |-> IF i = 5 THEN 16 ELSE IF i = 1 THEN 5 ELSE 0]
\* 2^32 - 1
MaxU32       == [i \in 1..NDigits |-> IF i <= 4 THEN 127 ELSE IF i = 5 THEN 15 ELSE 0]

NoId     == [has |-> FALSE, d |-> Dig(0)]
IdOf(d)  == [has |-> TRUE, d |-> d]

IdChoices == {NoId, IdOf(Dig(0)), IdOf(Dig(1)), IdOf(Dig(300)), IdOf(MaxU32),
              IdOf(TwoTo32), IdOf(TwoTo32Plus5)}

\* (type, geometry): a point, a line, the closed triangle of the test suite
ShapeChoices == {<<1, <<9, 0, 0>>>>,
                 <<2, <<9, 4, 4, 10, 8192, 300>>>>,
                 <<3, <<9, 0, 0, 18, 20, 0, 0, 20, 15>>>>}

\* the IEEE 754 bytes of 3.14, little-endian
Pi314 == <<31, 133, 235, 81, 184, 30, 9, 64>>

TableChoices ==
    {[keys |-> <<>>, values |-> <<>>],
     [keys |-> <<<<110>>, <<112, 111, 112>>>>,
      values |-> <<StringValue(<<66, 101, 114, 108, 105, 110>>), UintValue(Dig(3748148))>>],
     [keys |-> <<<<115>>, <<110>>>>,
      values |-> <<IntValue(-7), BoolValue(TRUE)>>],
     [keys |-> <<<<100>>, <<117>>>>,
      values |-> <<DoubleValue(Pi314), IntValue(1000000)>>]}

TagChoices(t) == IF t.keys = <<>> THEN {<<>>} ELSE {<<>>, <<0, 0, 1, 1>>, <<1, 0>>}

FeatureChoices(t) ==
    {[id |-> i, type |-> sh[1], geometry |-> sh[2], tags |-> tg] :
        i \in IdChoices, sh \in ShapeChoices, tg \in TagChoices(t)}

FeatureLists(t) ==
    UNION {[1..n -> FeatureChoices(t)] : n \in 0..MaxFeatures}

NameChoices == {<<97>>, <<114, 111, 97, 100, 115>>}

LayerChoices ==
    UNION {{[name |-> nm, extent |-> ex, keys |-> t.keys, values |-> t.values, features |-> fl] :
               nm \in NameChoices, ex \in {4096, 512}, fl \in FeatureLists(t)} :
           t \in TableChoices}

InitPbf ==
    /\ lin \in LayerChoices
    /\ lbuf = [stage |-> "empty", bytes |-> <<>>]
    /\ lout = [stage |-> "none", tile |-> [ok |-> FALSE, layers |-> <<>>]]
    /\ groups = Idle /\ cfg = Idle /\ pc = Idle /\ calls = Idle
    /\ initLen = Idle /\ outcome = Idle /\ tile = Idle
    /\ qin = Idle /\ qout = Idle /\ min = Idle /\ mout = Idle
    /\ pin = Idle /\ pout = Idle
    /\ fin = Idle /\ fout = Idle /\ rr = Idle

Encode ==
    /\ lbuf.stage = "empty"
    /\ lbuf' = [stage |-> "encoded", bytes |-> encodePbf(<<lin>>)]
    /\ UNCHANGED <<lin, lout, tileVars, indexVars, mergeVars, propsVars, callVars>>

Decode ==
    /\ lbuf.stage = "encoded"
    /\ lout.stage = "none"
    /\ lout' = [stage |-> "decoded", tile |-> ReadTile(lbuf.bytes)]
    /\ UNCHANGED <<lin, lbuf, tileVars, indexVars, mergeVars, propsVars, callVars>>

NextPbf == Encode \/ Decode

SpecPbf == InitPbf /\ [][NextPbf]_vars

\* what the reader got for feature i of the only layer
SameFeature(f, g, L, D) ==
    /\ g.ok
    /\ g.id = f.id
    /\ g.type = Dig(f.type)
    /\ g.geometry = [k \in 1..Len(f.geometry) |-> Dig(f.geometry[k])]
    /\ Len(g.tags) = Len(f.tags)
    /\ \A k \in 1..Len(f.tags) :
          /\ Fits31(g.tags[k])
          /\ IF k % 2 = 1
             THEN /\ Num(g.tags[k]) + 1 \in 1..Len(D.keys)
                  /\ D.keys[Num(g.tags[k]) + 1] = L.keys[f.tags[k] + 1]
             ELSE /\ Num(g.tags[k]) + 1 \in 1..Len(D.values)
                  /\ D.values[Num(g.tags[k]) + 1] = L.values[f.tags[k] + 1]

RoundTrips(L, T) ==
    /\ T.ok
    /\ Len(T.layers) = 1
    /\ LET D == T.layers[1]
       IN  /\ D.ok
           /\ D.name = L.name
           /\ D.extent = Dig(L.extent)
           /\ Len(D.features) = Len(L.features)
           /\ \A i \in 1..Len(L.features) : SameFeature(L.features[i], D.features[i], L, D)

\* C10: for every layer L with ASCII strings and ids that fit in u64, a
\* conforming reader of encodePbf([L]) reproduces L's name, extent, feature
\* count and each feature's id, type, properties and command stream.
C10_RoundTrip == lout.stage = "decoded" => RoundTrips(lin, lout.tile)

\* the same for the layers whose ids are all below 2^32
RoundTripSmallIds ==
    (lout.stage = "decoded" /\ \A i \in 1..Len(lin.features) :
        \A k \in 6..NDigits : lin.features[i].id.d[k] = 0 /\ lin.features[i].id.d[5] < 16)
    => RoundTrips(lin, lout.tile)


(***************************************************************************)
(* fgb/index: the packed Hilbert R-tree query.                              *)
(* The index buffer is the sequence of its whole 40-byte nodes              *)
(* [minX, minY, maxX, maxY, off]; node idx (0-based) is nodes[idx + 1] and  *)
(* can be read iff idx * 40 + 40 <= indexBytes.length.                      *)
(***************************************************************************)
NODE_ITEM_SIZE == 40
GAP            == 512
LAST_FEATURE_LENGTH == 1048576

CeilDiv(n, k) == (n + k - 1) \div k

\* levelNumNodes of computeLevelBounds: leaf count first, root count last
RECURSIVE LevelNumNodes(_, _)
LevelNumNodes(n, nodeSize) ==
    IF n > 1 THEN <<n>> \o LevelNumNodes(CeilDiv(n, nodeSize), nodeSize) ELSE <<n>>

RECURSIVE SumSeq(_)
SumSeq(s) == IF s = <<>> THEN 0 ELSE Head(s) + SumSeq(Tail(s))

\* levelBounds[i] = <<start, end>> of level i - 1 (level 0 = leaves), root first in
\* the node array
computeLevelBounds(featuresCount, nodeSize) ==
    LET lnn == LevelNumNodes(featuresCount, nodeSize)
    IN  [i \in 1..Len(lnn) |->
            LET offset == SumSeq(SubSeq(lnn, i + 1, Len(lnn)))
            IN  <<offset, offset + lnn[i]>>]

\* calcIndexSize of fgb/header
calcIndexSize(featuresCount, nodeSize) ==
    IF featuresCount = 0 \/ nodeSize = 0 THEN 0
    ELSE SumSeq(LevelNumNodes(featuresCount, nodeSize)) * NODE_ITEM_SIZE

Readable(indexBytes, nodeIdx) ==
    nodeIdx * NODE_ITEM_SIZE + NODE_ITEM_SIZE <= indexBytes.length

Disjoint(node, bbox) ==
    \/ node.maxX < bbox.minX \/ node.minX > bbox.maxX
    \/ node.maxY < bbox.minY \/ node.minY > bbox.maxY

ChildEndUnclamped(firstChild, nodeSize, childLevelEnd) == firstChild + nodeSize

\* Math.min(firstChild + nodeSize, childLevelEnd)
ChildEnd(firstChild, nodeSize, childLevelEnd) == Min2(firstChild + nodeSize, childLevelEnd)

\* the while loop of queryIndex: stack holds <<nodeIdx, level>> pairs, top last
RECURSIVE Traverse(_, _, _, _, _, _)
Traverse(stack, matching, indexBytes, levelBounds, nodeSize, bbox) ==
    IF stack = <<>> THEN matching
    ELSE LET nodeIdx == Last(stack)[1]
             level   == Last(stack)[2]
             rest    == Front(stack)
         IN  IF ~Readable(indexBytes, nodeIdx) THEN matching
             ELSE LET node == indexBytes.nodes[nodeIdx + 1]
                  IN  IF Disjoint(node, bbox)
                      THEN Traverse(rest, matching, indexBytes, levelBounds, nodeSize, bbox)
                      ELSE IF level = 0
                      THEN Traverse(rest, Append(matching, nodeIdx),
                                    indexBytes, levelBounds, nodeSize, bbox)
                      ELSE LET firstChild == node.off
                               childEnd   == ChildEnd(firstChild, nodeSize, levelBounds[level][2])
                               children   == [k \in 1..Max2(childEnd - firstChild, 0) |->
                                                 <<firstChild + k - 1, level - 1>>]
                           IN  Traverse(rest \o children, matching,
                                        indexBytes, levelBounds, nodeSize, bbox)

\* matchingLeafIndices after the sort
MatchingLeafIndices(indexBytes, featuresCount, nodeSize, bbox) ==
    LET levelBounds == computeLevelBounds(featuresCount, nodeSize)
        rootLevel   == Len(levelBounds) - 1
        rootStart   == levelBounds[rootLevel + 1][1]
        rootEnd     == levelBounds[rootLevel + 1][2]
        stack       == [k \in 1..(rootEnd - rootStart) |-> <<rootStart + k - 1, rootLevel>>]
    IN  SortSeq(Traverse(stack, <<>>, indexBytes, levelBounds, nodeSize, bbox), <)

NewEndOfCurrent(prevEnd, currEnd) == currEnd

\* Math.max(prevEnd, curr.offset + curr.length)
NewEnd(prevEnd, currEnd) == Max2(prevEnd, currEnd)

\* the loop with a strict comparison: a range exactly gap bytes after the end
\* of the previous one is not merged
RECURSIVE MergeLoopStrict(_, _, _, _)
MergeLoopStrict(ranges, i, merged, gap) ==
    IF i > Len(ranges) THEN merged
    ELSE LET prev    == Last(merged)
             curr    == ranges[i]
             prevEnd == prev.offset + prev.length
         IN  IF curr.offset < prevEnd + gap
             THEN MergeLoopStrict(ranges, i + 1,
                                  Append(Front(merged),
                                         [offset |-> prev.offset,
                                          length |-> Max2(prevEnd, curr.offset + curr.length)
                                                     - prev.offset]),
                                  gap)
             ELSE MergeLoopStrict(ranges, i + 1, Append(merged, curr), gap)

RECURSIVE MergeLoop(_, _, _, _)
MergeLoop(ranges, i, merged, gap) ==
    IF i > Len(ranges) THEN merged
    ELSE LET prev    == Last(merged)
             curr    == ranges[i]
             prevEnd == prev.offset + prev.length
         IN  IF curr.offset <= prevEnd + gap
             THEN MergeLoop(ranges, i + 1,
                            Append(Front(merged),
                                   [offset |-> prev.offset,
                                    length |-> NewEnd(prevEnd, curr.offset + curr.length)
                                               - prev.offset]),
                            gap)
             ELSE MergeLoop(ranges, i + 1, Append(merged, curr), gap)

mergeRanges(ranges, gap) ==
    IF Len(ranges) <= 1 THEN ranges ELSE MergeLoop(ranges, 2, <<ranges[1]>>, gap)

\* queryIndex: [status, leaves, ranges]; status "RangeError" when a DataView
\* read past the end of the buffer throws
queryIndex(indexBytes, featuresCount, nodeSize, featuresOffset, bbox) ==
    IF featuresCount = 0 \/ nodeSize = 0
    THEN [status |-> "ok", leaves |-> <<>>, ranges |-> <<>>]
    ELSE LET leafEnd == computeLevelBounds(featuresCount, nodeSize)[1][2]
             leaves  == MatchingLeafIndices(indexBytes, featuresCount, nodeSize, bbox)
             throws  == \E k \in 1..Len(leaves) :
                           leaves[k] + 1 < leafEnd /\ ~Readable(indexBytes, leaves[k] + 1)
             ranges  == [k \in 1..Len(leaves) |->
                           LET featureByteOffset == indexBytes.nodes[leaves[k] + 1].off
                           IN  [offset |-> featuresOffset + featureByteOffset,
                                length |-> IF leaves[k] + 1 < leafEnd
                                           THEN indexBytes.nodes[leaves[k] + 2].off
                                                - featureByteOffset
                                           ELSE LAST_FEATURE_LENGTH]]
         IN  IF throws THEN [status |-> "RangeError", leaves |-> leaves, ranges |-> <<>>]
             ELSE [status |-> "ok", leaves |-> leaves, ranges |-> mergeRanges(ranges, GAP)]


(***************************************************************************)
(* SpecMerge: mergeRanges on ranges sorted by offset.                       *)
(***************************************************************************)
MaxRanges == 3

OffsetChoices == {0, GAP + 1, GAP + 2, 2 * GAP + 3}
LengthChoices == {0, 1, GAP + 88}

RangeChoices == [offset : OffsetChoices, length : LengthChoices]

SortedByOffset(rs) == \A i \in 1..(Len(rs) - 1) : rs[i].offset <= rs[i + 1].offset

InitMerge ==
    /\ min \in {rs \in UNION {[1..n -> RangeChoices] : n \in 0..MaxRanges} : SortedByOffset(rs)}
    /\ mout = [stage |-> "none", ranges |-> <<>>]
    /\ groups = Idle /\ cfg = Idle /\ pc = Idle /\ calls = Idle
    /\ initLen = Idle /\ outcome = Idle /\ tile = Idle
    /\ qin = Idle /\ qout = Idle /\ pin = Idle /\ pout = Idle
    /\ lin = Idle /\ lbuf = Idle /\ lout = Idle
    /\ fin = Idle /\ fout = Idle /\ rr = Idle

Merge ==
    /\ mout.stage = "none"
    /\ mout' = [stage |-> "merged", ranges |-> mergeRanges(min, GAP)]
    /\ UNCHANGED <<min, tileVars, indexVars, propsVars, pbfVars, callVars>>

NextMerge == Merge

SpecMerge == InitMerge /\ [][NextMerge]_vars

\* every byte position a range of the model can cover
Bytes == 0..(2 * GAP + 3 + GAP + 88)

Covers(rs, b) == \E i \in 1..Len(rs) : rs[i].offset <= b /\ b < rs[i].offset + rs[i].length

SetMax(S) == CHOOSE x \in S : \A y \in S : y <= x
SetMin(S) == CHOOSE x \in S : \A y \in S : x <= y

\* b lies in a gap between input ranges that is at most GAP bytes wide: no input
\* range holds b, and the nearest input range end at or below b and the nearest
\* input range start above b are at most GAP apart
InSmallGap(rs, b) ==
    LET below == {rs[i].offset + rs[i].length :
                     i \in {j \in 1..Len(rs) : rs[j].offset + rs[j].length <= b}}
        above == {rs[i].offset : i \in {j \in 1..Len(rs) : rs[j].offset > b}}
    IN  /\ ~Covers(rs, b)
        /\ below # {} /\ above # {}
        /\ SetMin(above) - SetMax(below) <= GAP

MergeExact(input, output) ==
    \A b \in Bytes : Covers(output, b) <=> (Covers(input, b) \/ InSmallGap(input, b))

\* C4: for any input sorted by offset the bytes covered by the output of
\* mergeRanges are the union of the input ranges plus the gaps between input
\* ranges of at most GAP bytes: no input byte is lost, no wider gap is covered.
C4_MergeCoversUnionAndSmallGaps == mout.stage = "merged" => MergeExact(min, mout.ranges)

\* a gap of exactly GAP bytes was closed and a wider one was left open
C4_Witness ==
    /\ mout.stage = "merged"
    /\ Len(min) = 3 /\ Len(mout.ranges) = 2
    /\ \A i \in 1..3 : min[i].length > 0
    /\ min[1].offset + min[1].length + GAP = min[2].offset
    /\ \E b \in Bytes : InSmallGap(min, b) /\ Covers(mout.ranges, b)
    /\ \E b \in Bytes : ~Covers(mout.ranges, b) /\ b > mout.ranges[1].offset
                         /\ b < mout.ranges[2].offset

\* bytes from the end of output range i to the start of the later output range j
Distance(rs, i, j) == rs[j].offset - (rs[i].offset + rs[i].length)

\* C19: for sorted input no two ranges in the output of mergeRanges are
\* within GAP+1 = 513 bytes of each other, measured from the end of the
\* earlier output range to the start of the later one.
C19_NoOutputsWithinGapPlusOne ==
    mout.stage = "merged" =>
        \A i, j \in 1..Len(mout.ranges) : i < j => Distance(mout.ranges, i, j) > GAP + 1

\* C19 as amended: no two output ranges are within GAP = 512 bytes of each
\* other; a later output range starts at least GAP+1 bytes after the end of
\* an earlier one.
C19_NoOutputsWithinGap ==
    mout.stage = "merged" =>
        \A i, j \in 1..Len(mout.ranges) : i < j => Distance(mout.ranges, i, j) > GAP

\* two input ranges GAP bytes apart were merged, and the output range that
\* follows starts exactly GAP+1 bytes after the end of the merged one
C19_Witness ==
    /\ mout.stage = "merged"
    /\ Len(min) = 3 /\ Len(mout.ranges) = 2
    /\ min[2].offset - (min[1].offset + min[1].length) = GAP
    /\ Distance(mout.ranges, 1, 2) = GAP + 1


(***************************************************************************)
(* SpecIndex: queryIndex on a packed R-tree built over given leaf boxes.    *)
(***************************************************************************)
MaxLeaves == 4

Box(x1, y1, x2, y2) == [minX |-> x1, minY |-> y1, maxX |-> x2, maxY |-> y2]

\* leaf boxes around the query boxes: apart, touching in a corner, touching
\* along an edge, apart on the other side
LeafBoxChoices == {Box(0, 0, 1, 1), Box(1, 1, 2, 2), Box(2, 3, 3, 4), Box(4, 0, 5, 5)}
QueryChoices   == {Box(2, 2, 3, 3), Box(0, 2, 0, 5)}
NodeSizeChoices == {2, 3}

Hull(boxes, slack) ==
    Box(SetMin({boxes[i].minX : i \in 1..Len(boxes)}) - slack,
        SetMin({boxes[i].minY : i \in 1..Len(boxes)}) - slack,
        SetMax({boxes[i].maxX : i \in 1..Len(boxes)}) + slack,
        SetMax({boxes[i].maxY : i \in 1..Len(boxes)}) + slack)

\* the boxes of the level above: one per run of nodeSize children
ParentBoxes(boxes, nodeSize, slack) ==
    [j \in 1..CeilDiv(Len(boxes), nodeSize) |->
        Hull(SubSeq(boxes, (j - 1) * nodeSize + 1, Min2(j * nodeSize, Len(boxes))), slack)]

\* all levels, leaves first, up to the single root
RECURSIVE TreeLevels(_, _, _)
TreeLevels(boxes, nodeSize, slack) ==
    IF Len(boxes) <= 1 THEN <<boxes>>
    ELSE <<boxes>> \o TreeLevels(ParentBoxes(boxes, nodeSize, slack), nodeSize, slack)

FEATURE_BYTES == 100

\* the node array of a well-formed tree, root first; leafOff[i] is the feature
\* byte offset stored in leaf i
PackedTree(leafBoxes, nodeSize, slack, leafOff) ==
    LET levels == TreeLevels(leafBoxes, nodeSize, slack)
        top    == Len(levels)
        \* index of the first node of level l (1 = leaves)
        start(l) == SumSeq([m \in 1..(top - l) |-> Len(levels[l + m])])
        nodesOf(l) ==
            [j \in 1..Len(levels[l]) |->
                [minX |-> levels[l][j].minX, minY |-> levels[l][j].minY,
                 maxX |-> levels[l][j].maxX, maxY |-> levels[l][j].maxY,
                 off  |-> IF l = 1 THEN leafOff[j]
                          ELSE start(l - 1) + (j - 1) * nodeSize]]
    IN  Flatten([k \in 1..top |-> nodesOf(top - k + 1)])

IndexBuffer(nodes, defect) ==
    CASE defect = "short" -> [nodes  |-> Front(nodes),
                              length |-> Len(nodes) * NODE_ITEM_SIZE - 8]
      [] defect = "empty" -> [nodes |-> <<>>, length |-> 0]
      [] OTHER            -> [nodes |-> nodes, length |-> Len(nodes) * NODE_ITEM_SIZE]

InitIndex ==
    /\ \E n \in 1..MaxLeaves, nodeSize \in NodeSizeChoices, slack \in {0, 1},
          bbox \in QueryChoices, defect \in {"none", "short", "empty", "unordered"} :
         \E leafBoxes \in [1..n -> LeafBoxChoices] :
            LET leafOff == [i \in 1..n |-> IF defect = "unordered"
                                           THEN (n - i) * FEATURE_BYTES
                                           ELSE (i - 1) * FEATURE_BYTES]
                nodes   == PackedTree(leafBoxes, nodeSize, slack, leafOff)
            IN  qin = [indexBytes     |-> IndexBuffer(nodes, defect),
                       featuresCount  |-> n,
                       nodeSize       |-> nodeSize,
                       featuresOffset |-> 12 + 8 + Len(nodes) * NODE_ITEM_SIZE,
                       bbox           |-> bbox,
                       leafBoxes      |-> leafBoxes,
                       leafOff        |-> leafOff,
                       wellFormed     |-> defect = "none"]
    /\ qout = [stage |-> "none", status |-> "ok", leaves |-> <<>>, ranges |-> <<>>]
    /\ groups = Idle /\ cfg = Idle /\ pc = Idle /\ calls = Idle
    /\ initLen = Idle /\ outcome = Idle /\ tile = Idle
    /\ min = Idle /\ mout = Idle /\ pin = Idle /\ pout = Idle
    /\ lin = Idle /\ lbuf = Idle /\ lout = Idle
    /\ fin = Idle /\ fout = Idle /\ rr = Idle

Query ==
    /\ qout.stage = "none"
    /\ LET r == queryIndex(qin.indexBytes, qin.featuresCount, qin.nodeSize,
                           qin.featuresOffset, qin.bbox)
       IN  qout' = [stage |-> "returned", status |-> r.status,
                    leaves |-> r.leaves, ranges |-> r.ranges]
    /\ UNCHANGED <<qin, tileVars, mergeVars, propsVars, pbfVars, callVars>>

NextIndex == Query

SpecIndex == InitIndex /\ [][NextIndex]_vars

TotalNodes(featuresCount, nodeSize) == SumSeq(LevelNumNodes(featuresCount, nodeSize))

\* closed boxes share a point
Touch(a, q) ==
    /\ a.minX <= q.maxX /\ q.minX <= a.maxX
    /\ a.minY <= q.maxY /\ q.minY <= a.maxY

IntersectingLeaves ==
    LET leafStart == TotalNodes(qin.featuresCount, qin.nodeSize) - qin.featuresCount
    IN  {leafStart + i - 1 : i \in {j \in 1..qin.featuresCount : Touch(qin.leafBoxes[j], qin.bbox)}}

\* C3: on a well-formed tree queryIndex selects exactly the leaves whose box
\* intersects the query box, boundary contact included, each once.
C3_ExactLeaves ==
    (qout.stage = "returned" /\ qin.wellFormed)
    => /\ qout.status = "ok"
       /\ {qout.leaves[k] : k \in 1..Len(qout.leaves)} = IntersectingLeaves
       /\ Cardinality(IntersectingLeaves) = Len(qout.leaves)

\* a partially filled last node on two levels, a leaf that only touches the query
\* box selected and a disjoint leaf left out
C3_Witness ==
    /\ qout.stage = "returned" /\ qin.wellFormed
    /\ qin.featuresCount = 3 /\ qin.nodeSize = 2
    /\ qin.bbox = Box(2, 2, 3, 3)
    /\ qin.leafBoxes[3] = Box(1, 1, 2, 2)
    /\ qin.leafBoxes[1] = Box(0, 0, 1, 1)
    /\ Len(qout.leaves) = 1

IndexTooShort ==
    qin.indexBytes.length < TotalNodes(qin.featuresCount, qin.nodeSize) * NODE_ITEM_SIZE

OffsetsNotMonotone ==
    \E i \in 1..(qin.featuresCount - 1) : qin.leafOff[i + 1] < qin.leafOff[i]

\* C7: queryIndex fails with an error, instead of returning ranges, whenever the
\* index buffer is shorter than totalNodes * 40 bytes and whenever the leaves'
\* featureByteOffset values do not increase monotonically.
C7_MalformedIndexFails ==
    (qout.stage = "returned" /\ (IndexTooShort \/ OffsetsNotMonotone))
    => qout.status # "ok"


(***************************************************************************)
(* SpecProps: decodeProperties on a feature's properties byte vector.       *)
(***************************************************************************)
Byte     == 0
UByte    == 1
Bool     == 2
Short    == 3
UShort   == 4
Int32    == 5
UInt     == 6
Long     == 7
ULong    == 8
Float    == 9
Double   == 10
String   == 11
Json     == 12
DateTime == 13
Binary   == 14

ColumnType == Byte..Binary

\* little-endian value of a run of bytes
RECURSIVE LE(_)
LE(raw) == IF raw = <<>> THEN 0 ELSE Head(raw) + 256 * LE(Tail(raw))

\* two's complement reading of a run of bytes
Signed(raw) ==
    IF Last(raw) >= 128 THEN LE(Front(raw) \o <<Last(raw) - 256>>) ELSE LE(raw)

NullValue == [kind |-> "null", n |-> 0, raw |-> <<>>]

\* bytes a DataView getter of the type reads
FixedSize(type) ==
    CASE type \in {Byte, UByte, Bool}    -> 1
      [] type \in {Short, UShort}        -> 2
      [] type \in {Int32, UInt, Float}   -> 4
      [] type \in {Long, ULong, Double}  -> 8

FixedValue(type, raw) ==
    CASE type = Bool                      -> [kind |-> "bool", n |-> IF raw[1] # 0 THEN 1 ELSE 0, raw |-> <<>>]
      [] type \in {Byte, Short, Int32}    -> [kind |-> "number", n |-> Signed(raw), raw |-> <<>>]
      [] type \in {UByte, UShort, UInt}   -> [kind |-> "number", n |-> LE(raw), raw |-> <<>>]
      [] OTHER                            -> [kind |-> "bits", n |-> type, raw |-> raw]

\* [threw, value, bytesRead]; a DataView getter reading beyond the view throws
readPropertyValue(bytes, offset, type) ==
    IF type \in Byte..Double
    THEN IF offset + FixedSize(type) > Len(bytes)
         THEN [threw |-> TRUE, value |-> NullValue, bytesRead |-> 0]
         ELSE [threw |-> FALSE,
               value |-> FixedValue(type, SubSeq(bytes, offset + 1, offset + FixedSize(type))),
               bytesRead |-> FixedSize(type)]
    ELSE IF type \in String..Binary
    THEN IF offset + 4 > Len(bytes)
         THEN [threw |-> FALSE, value |-> NullValue, bytesRead |-> 0]
         ELSE LET strLen == LE(SubSeq(bytes, offset + 1, offset + 4))
              IN  IF offset + 4 + strLen > Len(bytes)
                  THEN [threw |-> FALSE, value |-> NullValue, bytesRead |-> 0]
                  ELSE [threw |-> FALSE,
                        value |-> [kind |-> IF type = Binary THEN "binary" ELSE "string",
                                   n |-> 0,
                                   raw |-> SubSeq(bytes, offset + 5, offset + 4 + strLen)],
                        bytesRead |-> 4 + strLen]
    ELSE [threw |-> FALSE, value |-> NullValue, bytesRead |-> 0]

\* the while loop of decodeProperties; entries are the props.set calls in order
RECURSIVE PropsLoop(_, _, _, _)
PropsLoop(columns, propsBytes, offset, entries) ==
    IF ~(offset < Len(propsBytes)) THEN [status |-> "ok", entries |-> entries]
    ELSE IF offset + 2 > Len(propsBytes) THEN [status |-> "ok", entries |-> entries]
    ELSE LET colIdx == LE(SubSeq(propsBytes, offset + 1, offset + 2))
         IN  IF colIdx >= Len(columns) THEN [status |-> "ok", entries |-> entries]
             ELSE LET col == columns[colIdx + 1]
                      r   == readPropertyValue(propsBytes, offset + 2, col.type)
                  IN  IF r.threw THEN [status |-> "RangeError", entries |-> entries]
                      ELSE PropsLoop(columns, propsBytes, offset + 2 + r.bytesRead,
                                     Append(entries, [col |-> colIdx, name |-> col.name,
                                                      at |-> offset, value |-> r.value]))

decodeProperties(columns, propsBytes) ==
    IF Len(propsBytes) = 0 THEN [status |-> "ok", entries |-> <<>>]
    ELSE PropsLoop(columns, propsBytes, 0, <<>>)

MaxPropBytes == 7
ByteChoices == {0, 1, 2}
UNKNOWN_TYPE == 99

Column(name, type) == [name |-> name, type |-> type]

ColumnsChoices ==
    { <<Column("a", Bool), Column("b", UShort)>>,
      <<Column("a", Int32), Column("b", Bool)>>,
      <<Column("a", String), Column("b", UByte)>>,
      <<Column("a", UNKNOWN_TYPE), Column("b", Bool)>>,
      <<Column("a", Double)>> }

InitProps ==
    /\ \E columns \in ColumnsChoices, n \in 0..MaxPropBytes :
         \E bytes \in [1..n -> ByteChoices] :
            pin = [columns |-> columns, bytes |-> bytes]
    /\ pout = [stage |-> "none", status |-> "ok", entries |-> <<>>]
    /\ groups = Idle /\ cfg = Idle /\ pc = Idle /\ calls = Idle
    /\ initLen = Idle /\ outcome = Idle /\ tile = Idle
    /\ qin = Idle /\ qout = Idle /\ min = Idle /\ mout = Idle
    /\ lin = Idle /\ lbuf = Idle /\ lout = Idle
    /\ fin = Idle /\ fout = Idle /\ rr = Idle

DecodeProperties ==
    /\ pout.stage = "none"
    /\ LET r == decodeProperties(pin.columns, pin.bytes)
       IN  pout' = [stage |-> "decoded", status |-> r.status, entries |-> r.entries]
    /\ UNCHANGED <<pin, tileVars, indexVars, mergeVars, pbfVars, callVars>>

NextProps == DecodeProperties

SpecProps == InitProps /\ [][NextProps]_vars

KnownTypes == \A i \in 1..Len(pin.columns) : pin.columns[i].type \in ColumnType

\* bytes the value of an entry needs at the offset
Needed(bytes, offset, type) ==
    IF type \in Byte..Double THEN FixedSize(type)
    ELSE IF offset + 4 > Len(bytes) THEN 4
    ELSE 4 + LE(SubSeq(bytes, offset + 1, offset + 4))

\* offsets of the entries of a stream up to, not including, the first entry with
\* a column index out of range or with fewer bytes left than its type needs
RECURSIVE GoodEntryOffsets(_, _, _)
GoodEntryOffsets(columns, bytes, offset) ==
    IF offset + 2 > Len(bytes) THEN <<>>
    ELSE LET colIdx == LE(SubSeq(bytes, offset + 1, offset + 2))
         IN  IF colIdx >= Len(columns) THEN <<>>
             ELSE LET need == Needed(bytes, offset + 2, columns[colIdx + 1].type)
                  IN  IF offset + 2 + need > Len(bytes) THEN <<>>
                      ELSE <<offset>> \o GoodEntryOffsets(columns, bytes, offset + 2 + need)

\* C8: decoding a property stream never throws; at an entry whose column index
\* is out of range or whose value is truncated (fixed-size or length-prefixed)
\* parsing stops, and exactly the entries before it are kept.
C8_PropertiesNeverThrow ==
    (pout.stage = "decoded" /\ KnownTypes)
    => /\ pout.status = "ok"
       /\ [k \in 1..Len(pout.entries) |-> pout.entries[k].at]
            = GoodEntryOffsets(pin.columns, pin.bytes, 0)

\* C9: an entry of a column whose type is outside the enum is recorded as null
\* and is the last entry parsed from the stream.
C9_UnknownTypeStops ==
    (pout.stage = "decoded" /\ pout.status = "ok")
    => \A k \in 1..Len(pout.entries) :
          pin.columns[pout.entries[k].col + 1].type \notin ColumnType
          => /\ pout.entries[k].value = NullValue
             /\ k = Len(pout.entries)


(***************************************************************************)
(* SpecTile: processTile / processMultiConnectorTile over concurrently      *)
(* running processSource pipelines.  A source is known by its name; every   *)
(* connector read is a step that completes or fails on its own.             *)
(***************************************************************************)
MaxSources == 2

HEADER_MAGIC_SIZE == 8
INITIAL_HEADER_READ_SIZE == HEADER_MAGIC_SIZE + 4

\* an optional option: undefined or a number
Opt(v) == [set |-> TRUE, v |-> v]
Undefined == [set |-> FALSE, v |-> 0]

DEFAULT_TILE_OPTIONS == [extent |-> 4096, maxZoom |-> 24, minZoom |-> 0]

\* a ?? b ?? c
Coalesce(a, b, c) == IF a.set THEN a.v ELSE IF b.set THEN b.v ELSE c

resolveOptions(source, tileOptions) ==
    [extent  |-> Coalesce(source.extent, tileOptions.extent, DEFAULT_TILE_OPTIONS.extent),
     maxZoom |-> Coalesce(source.maxZoom, tileOptions.maxZoom, DEFAULT_TILE_OPTIONS.maxZoom),
     minZoom |-> Coalesce(source.minZoom, tileOptions.minZoom, DEFAULT_TILE_OPTIONS.minZoom)]

emptyLayer(name, extent) ==
    [name |-> name, extent |-> extent, keys |-> <<>>, values |-> <<>>, features |-> <<>>]

NoLayer == emptyLayer(<<>>, 0)
NoError == [kind |-> "none", src |-> <<>>, at |-> "none"]

\* ---- the FGB files behind the paths
HEADER_FB_BYTES == 40

\* the WGS84 box of the requested tile
TileBBox == Box(2, 2, 3, 3)

\* a file of two point features with a two-leaf index; inside says which
\* leaf boxes meet the tile, a file of fewer than 12 bytes has size 4
FgbFile(kind) ==
    LET fc        == IF kind = "nofeatures" THEN 0 ELSE 2
        ns        == IF kind = "noindex" THEN 0 ELSE 2
        hdrSize   == HEADER_MAGIC_SIZE + 4 + HEADER_FB_BYTES
        leafBoxes == IF kind = "miss" THEN <<Box(0, 0, 1, 1), Box(4, 0, 5, 5)>>
                     ELSE <<Box(1, 1, 2, 2), Box(2, 3, 3, 4)>>
        leafOff   == [i \in 1..2 |-> (i - 1) * FEATURE_BYTES]
        nodes     == IF fc = 0 \/ ns = 0 THEN <<>> ELSE PackedTree(leafBoxes, ns, 0, leafOff)
    IN  [size     |-> IF kind = "short" THEN 4
                      ELSE hdrSize + Len(nodes) * NODE_ITEM_SIZE + fc * FEATURE_BYTES,
         magicOk  |-> kind # "badmagic",
         hdrSize  |-> hdrSize,
         featuresCount |-> fc,
         indexNodeSize |-> ns,
         nodes    |-> nodes,
         points   |-> [i \in 1..fc |-> [inClip |-> i = 1, tx |-> 100 * i, ty |-> 7]]]

\* bytes a connector returns for read(offset, length): short at the end of file
ConnectorRead(file, offset, length) == Min2(length, Max2(file.size - offset, 0))

\* headerByteSize: [threw, size]
headerByteSize(file, bytesLength) ==
    IF bytesLength < HEADER_MAGIC_SIZE + 4 THEN [threw |-> TRUE, size |-> 0]
    ELSE [threw |-> FALSE, size |-> file.hdrSize]

\* parseHeader: [threw, header]
parseHeader(file) ==
    LET indexSize == IF file.indexNodeSize > 0
                     THEN calcIndexSize(file.featuresCount, file.indexNodeSize) ELSE 0
    IN  [threw  |-> ~file.magicOk,
         header |-> [featuresCount  |-> file.featuresCount,
                     indexNodeSize  |-> file.indexNodeSize,
                     indexOffset    |-> file.hdrSize,
                     indexSize      |-> indexSize,
                     featuresOffset |-> file.hdrSize + indexSize,
                     headerSize     |-> file.hdrSize]]

\* the index section as read from the file
IndexBytes(file, bytesLength) ==
    [nodes |-> SubSeq(file.nodes, 1, bytesLength \div NODE_ITEM_SIZE), length |-> bytesLength]

\* the uint32 size prefix found at a file position
FeatureSizeAt(file, header, pos) ==
    IF pos >= header.featuresOffset /\ pos < file.size
       /\ (pos - header.featuresOffset) % FEATURE_BYTES = 0
    THEN FEATURE_BYTES - 4 ELSE 0

\* the while loop of decodeFeatures over one chunk that starts at chunkOffset
RECURSIVE DecodeLoop(_, _, _, _, _, _)
DecodeLoop(file, header, chunkOffset, chunkLength, offset, features) ==
    IF ~(offset < chunkLength) THEN features
    ELSE IF offset + 4 > chunkLength THEN features
    ELSE LET featureSize == FeatureSizeAt(file, header, chunkOffset + offset)
         IN  IF featureSize = 0 THEN features
             ELSE IF offset + 4 + featureSize > chunkLength THEN features
             ELSE DecodeLoop(file, header, chunkOffset, chunkLength, offset + 4 + featureSize,
                             Append(features,
                                    file.points[(chunkOffset + offset - header.featuresOffset)
                                                \div FEATURE_BYTES + 1]))

decodeFeatures(file, header, chunkOffset, chunkLength) ==
    DecodeLoop(file, header, chunkOffset, chunkLength, 0, <<>>)

\* buildMvtLayer on point features without properties: the points inside the
\* clip bounds become MoveTo(1) features, in input order
buildMvtLayer(features, name, extent) ==
    LET kept == SelectSeq(features, LAMBDA f : f.inClip)
    IN  [name |-> name, extent |-> extent, keys |-> <<>>, values |-> <<>>,
         features |-> [i \in 1..Len(kept) |->
                          [id |-> NoId, type |-> 1,
                           geometry |-> <<9, 2 * kept[i].tx, 2 * kept[i].ty>>,
                           tags |-> <<>>]]]


\* ---- what a processSource call does up to its next await
Pending == [status |-> "pending", layer |-> NoLayer, error |-> NoError]

Return(layer) ==
    [pc |-> "done", calls |-> <<>>,
     outcome |-> [status |-> "fulfilled", layer |-> layer, error |-> NoError]]

Throw(kind, name, at) ==
    [pc |-> "done", calls |-> <<>>,
     outcome |-> [status |-> "rejected", layer |-> NoLayer,
                  error |-> [kind |-> kind, src |-> name, at |-> at]]]

Await(at, call) == [pc |-> at, calls |-> <<call>>, outcome |-> Pending]

ReadCall(offset, length) ==
    [op |-> "read", offset |-> offset, length |-> length, ranges |-> <<>>]

ReadRangesCall(ranges) ==
    [op |-> "readRanges", offset |-> 0, length |-> 0, ranges |-> ranges]

OutOfZoomBelowOnly(z, tileOpts) == z < tileOpts.minZoom

\* z < tileOpts.minZoom || z > tileOpts.maxZoom
OutOfZoom(z, tileOpts) == z < tileOpts.minZoom \/ z > tileOpts.maxZoom

\* processSource after queryIndex returned q
AfterQuery(name, tileOpts, q) ==
    IF q.status # "ok" THEN Throw(q.status, name, "queryIndex")
    ELSE IF Len(q.ranges) = 0 THEN Return(emptyLayer(name, tileOpts.extent))
    ELSE Await("awaitRanges", ReadRangesCall(q.ranges))

\* processSource from the index query to the readRanges call
AfterHeader(name, tileOpts, header, indexBytes) ==
    IF header.indexNodeSize = 0 \/ header.featuresCount = 0
    THEN Return(emptyLayer(name, tileOpts.extent))
    ELSE AfterQuery(name, tileOpts,
                    queryIndex(indexBytes, header.featuresCount, header.indexNodeSize,
                               header.featuresOffset, TileBBox))

\* header.indexSize > 0
HasIndex(header) == header.indexSize > 0

\* readHeader from parseHeader on, then processSource
AfterHeaderBytes(name, tileOpts, file) ==
    LET h == parseHeader(file)
    IN  IF h.threw THEN Throw("InvalidMagic", name, "parseHeader")
        ELSE IF HasIndex(h.header)
        THEN Await("awaitIndex", ReadCall(h.header.indexOffset, h.header.indexSize))
        ELSE AfterHeader(name, tileOpts, h.header, [nodes |-> <<>>, length |-> 0])

InitialBytesSufficeNever(hdrSize, initialLength) == FALSE

\* hdrSize <= initialBytes.length
InitialBytesSuffice(hdrSize, initialLength) == hdrSize <= initialLength

\* readHeader after the initial read returned initialLength bytes
AfterInitialRead(name, tileOpts, file, initialLength) ==
    LET hs == headerByteSize(file, initialLength)
    IN  IF hs.threw THEN Throw("HeaderTooShort", name, "headerByteSize")
        ELSE IF InitialBytesSuffice(hs.size, initialLength)
        THEN AfterHeaderBytes(name, tileOpts, file)
        ELSE Await("awaitHeader", ReadCall(0, hs.size))

\* processSource after readRanges returned the chunks
AfterRanges(name, tileOpts, file, ranges) ==
    LET header == parseHeader(file).header
        allFeatures ==
            Flatten([k \in 1..Len(ranges) |->
                        decodeFeatures(file, header, ranges[k].offset,
                                       ConnectorRead(file, ranges[k].offset, ranges[k].length))])
    IN  IF Len(allFeatures) = 0 THEN Return(emptyLayer(name, tileOpts.extent))
        ELSE Return(buildMvtLayer(allFeatures, name, tileOpts.extent))

\* processSource up to its first await; a cache entry holds what readHeader
\* returned for the file
processSource(name, source, z, tileOpts) ==
    IF OutOfZoom(z, tileOpts) THEN Return(emptyLayer(name, tileOpts.extent))
    ELSE IF source.cached
    THEN LET file   == FgbFile(source.file)
             header == parseHeader(file).header
         IN  AfterHeader(name, tileOpts, header, IndexBytes(file, header.indexSize))
    ELSE Await("awaitInitial", ReadCall(0, INITIAL_HEADER_READ_SIZE))

\* ---- Promise.all over the per-source promises
AnyRejectedNever(promises, out) == FALSE

AnyRejected(promises, out) ==
    \E k \in 1..Len(promises) : out[promises[k]].status = "rejected"

AllFulfilled(promises, out) ==
    \A k \in 1..Len(promises) : out[promises[k]].status = "fulfilled"

FirstRejected(promises, out) ==
    Head(SelectSeq(promises, LAMBDA n : out[n].status = "rejected"))

ValuesInSettleOrder(promises, out, settled) == [k \in 1..Len(settled) |-> out[settled[k]].layer]

\* the values of Promise.all: by position of the promise
Values(promises, out, settled) == [k \in 1..Len(promises) |-> out[promises[k]].layer]

\* the tile promise after the outcomes out; settled lists the sources in the
\* order in which they completed
Settle(t, out, settled) ==
    IF t.status # "pending" THEN [t EXCEPT !.settled = settled]
    ELSE IF AnyRejected(t.promises, out)
    THEN [t EXCEPT !.status = "rejected", !.settled = settled,
                   !.error = out[FirstRejected(t.promises, out)].error]
    ELSE IF AllFulfilled(t.promises, out)
    THEN [t EXCEPT !.status = "resolved", !.settled = settled,
                   !.pbf = encodePbf(Values(t.promises, out, settled))]
    ELSE [t EXCEPT !.settled = settled]

\* the nested loops of processMultiConnectorTile: one promise per source, group
\* by group
RECURSIVE AllLayerPromises(_)
AllLayerPromises(gs) ==
    IF gs = <<>> THEN <<>> ELSE Head(gs) \o AllLayerPromises(Tail(gs))


\* ---- the requests
SourceNames == <<<<97>>, <<98>>, <<99>>, <<100>>>>

ZoomChoices == {1, 5, 9}

NoTileOptions == [extent |-> Undefined, maxZoom |-> Undefined, minZoom |-> Undefined]

Source(file, cached, extent, minZoom, maxZoom) ==
    [file |-> file, cached |-> cached,
     options |-> [extent |-> extent, maxZoom |-> maxZoom, minZoom |-> minZoom]]

SourceChoices ==
    { Source("hit", FALSE, Undefined, Opt(2), Opt(8)),
      Source("hit", TRUE, Undefined, Opt(2), Opt(8)),
      Source("miss", FALSE, Opt(512), Undefined, Undefined),
      Source("noindex", FALSE, Undefined, Undefined, Undefined),
      Source("nofeatures", TRUE, Undefined, Undefined, Undefined),
      Source("short", FALSE, Undefined, Undefined, Undefined),
      Source("badmagic", FALSE, Undefined, Undefined, Undefined) }

\* names cut into groups after the positions in cuts
RECURSIVE SplitAt(_, _)
SplitAt(names, cuts) ==
    IF names = <<>> THEN <<>>
    ELSE LET first == SetMin(cuts \cup {Len(names)})
         IN  <<SubSeq(names, 1, first)>>
             \o SplitAt(SubSeq(names, first + 1, Len(names)),
                        {c - first : c \in {x \in cuts : x > first}})

InitTile ==
    /\ \E n \in 1..MaxSources :
         /\ \E cuts \in SUBSET (1..(n - 1)) : groups = SplitAt(SubSeq(SourceNames, 1, n), cuts)
         /\ cfg \in [{SourceNames[i] : i \in 1..n} -> SourceChoices]
    /\ pc = [nm \in DOMAIN cfg |-> "notStarted"]
    /\ calls = [nm \in DOMAIN cfg |-> <<>>]
    /\ initLen = [nm \in DOMAIN cfg |-> 0]
    /\ outcome = [nm \in DOMAIN cfg |-> Pending]
    /\ tile = [status |-> "idle", z |-> 0, promises |-> <<>>, settled |-> <<>>,
               pbf |-> <<>>, error |-> NoError]
    /\ qin = Idle /\ qout = Idle /\ min = Idle /\ mout = Idle
    /\ pin = Idle /\ pout = Idle /\ lin = Idle /\ lbuf = Idle /\ lout = Idle
    /\ fin = Idle /\ fout = Idle /\ rr = Idle

TileOptsOf(nm) == resolveOptions(cfg[nm].options, NoTileOptions)

\* every processSource call runs to its first await, then Promise.all is awaited
Start(promises, z) ==
    \E step \in {[nm \in DOMAIN cfg |-> processSource(nm, cfg[nm], z, TileOptsOf(nm))]} :
        /\ pc' = [nm \in DOMAIN cfg |-> step[nm].pc]
        /\ calls' = [nm \in DOMAIN cfg |-> step[nm].calls]
        /\ outcome' = [nm \in DOMAIN cfg |-> step[nm].outcome]
        /\ tile' = Settle([status |-> "pending", z |-> z, promises |-> promises,
                           settled |-> <<>>, pbf |-> <<>>, error |-> NoError],
                          outcome', SelectSeq(promises, LAMBDA nm : pc'[nm] = "done"))
        /\ UNCHANGED <<groups, cfg, initLen, indexVars, mergeVars, propsVars, pbfVars, callVars>>

ProcessMultiConnectorTile ==
    /\ tile.status = "idle"
    /\ \E z \in ZoomChoices : Start(AllLayerPromises(groups), z)

\* one connector: processTileLayers maps the sources of the only group
ProcessTile ==
    /\ tile.status = "idle"
    /\ Len(groups) = 1
    /\ \E z \in ZoomChoices : Start(groups[1], z)

\* the continuation of source nm runs to its next await or to its end
Advance(nm, step) ==
    /\ pc' = [pc EXCEPT ![nm] = step.pc]
    /\ calls' = [calls EXCEPT ![nm] = @ \o step.calls]
    /\ outcome' = [outcome EXCEPT ![nm] = step.outcome]
    /\ tile' = Settle(tile, outcome',
                      IF step.pc = "done" THEN Append(tile.settled, nm) ELSE tile.settled)
    /\ UNCHANGED <<groups, cfg, indexVars, mergeVars, propsVars, pbfVars, callVars>>

\* the 12-byte read returns: short at the end of file, or the whole body when
\* an HTTP server ignores the Range header
InitialReadDone(nm) ==
    /\ pc[nm] = "awaitInitial"
    /\ LET file == FgbFile(cfg[nm].file)
       IN  \E n \in {ConnectorRead(file, 0, INITIAL_HEADER_READ_SIZE), file.size} :
              /\ initLen' = [initLen EXCEPT ![nm] = n]
              /\ Advance(nm, AfterInitialRead(nm, TileOptsOf(nm), file, n))

HeaderReadDone(nm) ==
    /\ pc[nm] = "awaitHeader"
    /\ Advance(nm, AfterHeaderBytes(nm, TileOptsOf(nm), FgbFile(cfg[nm].file)))
    /\ UNCHANGED initLen

IndexReadDone(nm) ==
    /\ pc[nm] = "awaitIndex"
    /\ LET file   == FgbFile(cfg[nm].file)
           header == parseHeader(file).header
           bytes  == ConnectorRead(file, header.indexOffset, header.indexSize)
       IN  Advance(nm, AfterHeader(nm, TileOptsOf(nm), header, IndexBytes(file, bytes)))
    /\ UNCHANGED initLen

RangesReadDone(nm) ==
    /\ pc[nm] = "awaitRanges"
    /\ Advance(nm, AfterRanges(nm, TileOptsOf(nm), FgbFile(cfg[nm].file),
                               Last(calls[nm]).ranges))
    /\ UNCHANGED initLen

\* the pending connector call of source nm rejects
ReadFails(nm) ==
    /\ pc[nm] \in {"awaitInitial", "awaitHeader", "awaitIndex", "awaitRanges"}
    /\ Advance(nm, Throw("io", nm, pc[nm]))
    /\ UNCHANGED initLen

NextTile ==
    \/ ProcessMultiConnectorTile
    \/ ProcessTile
    \/ \E nm \in DOMAIN cfg : InitialReadDone(nm)
    \/ \E nm \in DOMAIN cfg : HeaderReadDone(nm)
    \/ \E nm \in DOMAIN cfg : IndexReadDone(nm)
    \/ \E nm \in DOMAIN cfg : RangesReadDone(nm)
    \/ \E nm \in DOMAIN cfg : ReadFails(nm)

SpecTile == InitTile /\ [][NextTile]_vars

\* ---- properties of a tile request
Rejected(nm)  == outcome[nm].status = "rejected"
ReadFailed(nm) == Rejected(nm) /\ outcome[nm].error.kind = "io"

\* the sources that failed, in the order in which they failed
FailedInOrder == SelectSeq(tile.settled, LAMBDA nm : Rejected(nm))

\* the layer names found in an encoded tile, in the order of the payload
TileLayerNames(b) ==
    LET ls == FieldsOf(ParseFields(b, 1), 3, 2)
    IN  [i \in 1..Len(ls) |-> Last(FieldsOf(ParseFields(ls[i].bytes, 1), 1, 2)).bytes]

\* all sources of group 1 in array order, then those of group 2, and so on
SourceOrder == Flatten(groups)

\* C1: once a connector read of any source has failed, the tile request is
\* rejected with the error of the first source that failed and carries no
\* payload; a resolved tile has a layer for every source and no source failed.
C1_NoPartialTile ==
    /\ (\E nm \in DOMAIN cfg : ReadFailed(nm)) =>
          /\ tile.status = "rejected"
          /\ tile.pbf = <<>>
          /\ tile.error = outcome[Head(FailedInOrder)].error
    /\ tile.status = "resolved" =>
          /\ \A nm \in DOMAIN cfg : outcome[nm].status = "fulfilled"
          /\ Len(TileLayerNames(tile.pbf)) = Cardinality(DOMAIN cfg)
    /\ tile.pbf # <<>> => tile.status = "resolved"

\* a read of one source failed while another source had delivered a layer with
\* a feature, and the request was rejected with the error of that read
C1_Witness ==
    /\ tile.status = "rejected"
    /\ tile.error.kind = "io"
    /\ \E nm \in DOMAIN cfg : ReadFailed(nm) /\ tile.error = outcome[nm].error
    /\ \E nm \in DOMAIN cfg : outcome[nm].status = "fulfilled" /\ outcome[nm].layer.features # <<>>

\* C2: the layers of a resolved tile are those of the sources in source order
\* across the groups, one layer per source, whatever the completion order.
C2_LayerOrderIsSourceOrder ==
    tile.status = "resolved" => TileLayerNames(tile.pbf) = SourceOrder

\* a tile of two groups resolved after its sources completed in another order
\* than the source order
C2_Witness ==
    /\ tile.status = "resolved"
    /\ Len(groups) >= 2
    /\ Len(tile.settled) = Len(SourceOrder)
    /\ tile.settled # SourceOrder

\* C5: a source whose zoom range excludes the requested zoom gets an empty layer
\* and no connector call, with or without a cache entry.
C5_OutOfZoomNoIO ==
    tile.status # "idle" =>
        \A nm \in DOMAIN cfg :
            (tile.z < TileOptsOf(nm).minZoom \/ tile.z > TileOptsOf(nm).maxZoom) =>
                /\ calls[nm] = <<>>
                /\ pc[nm] = "done"
                /\ outcome[nm].status = "fulfilled"
                /\ outcome[nm].layer.name = nm
                /\ outcome[nm].layer.features = <<>>
                /\ outcome[nm].layer.keys = <<>>
                /\ outcome[nm].layer.values = <<>>

\* a request above the zoom range of a source without cache entry, next to a
\* source in range that has called its connector
C5_Witness ==
    /\ tile.status # "idle"
    /\ \E nm \in DOMAIN cfg :
          /\ ~cfg[nm].cached
          /\ tile.z > TileOptsOf(nm).maxZoom
          /\ pc[nm] = "done"
    /\ \E nm \in DOMAIN cfg : calls[nm] # <<>>

\* the read calls of a source, in the order of issue
Reads(nm) == SelectSeq(calls[nm], LAMBDA c : c.op = "read")

HeaderOf(nm) == parseHeader(FgbFile(cfg[nm].file)).header

IsHeaderRead(nm, c) == c = ReadCall(0, HeaderOf(nm).headerSize)
IsIndexRead(nm, c)  == c = ReadCall(HeaderOf(nm).indexOffset, HeaderOf(nm).indexSize)

\* C6: per source at most three header reads: 12 bytes at offset 0, then the
\* full header only if fewer bytes than the header size were read, then the
\* index section only if indexSize > 0; none of them with a cache entry.
C6_HeaderReads ==
    \A nm \in DOMAIN cfg :
        LET r == Reads(nm)
        IN  /\ Len(r) <= 3
            /\ cfg[nm].cached => r = <<>>
            /\ r # <<>> => r[1] = ReadCall(0, INITIAL_HEADER_READ_SIZE)
            /\ \A k \in 2..Len(r) :
                  \/ /\ IsHeaderRead(nm, r[k])
                     /\ k = 2
                     /\ initLen[nm] < HeaderOf(nm).headerSize
                  \/ /\ IsIndexRead(nm, r[k])
                     /\ k = Len(r)
                     /\ HeaderOf(nm).indexSize > 0
                     /\ k = 2 => initLen[nm] >= HeaderOf(nm).headerSize
            /\ \A k \in 1..Len(calls[nm]) :
                  calls[nm][k].op = "readRanges" => k = Len(calls[nm]) /\ k = Len(r) + 1

\* one source issued all three reads, and a source with a cache entry went on
\* to readRanges and completed without any read
C6_Witness ==
    /\ \E nm \in DOMAIN cfg :
          /\ Len(Reads(nm)) = 3
          /\ IsHeaderRead(nm, Reads(nm)[2])
          /\ IsIndexRead(nm, Reads(nm)[3])
    /\ \E nm \in DOMAIN cfg :
          /\ cfg[nm].cached
          /\ pc[nm] = "done"
          /\ Reads(nm) = <<>>
          /\ calls[nm] # <<>>


(***************************************************************************)
(* SpecVarint: one PbfWriter.writeVarint(v) call on a fresh writer, for     *)
(* unsigned 64-bit values v given by their base-128 digits.                 *)
(***************************************************************************)
\* the values whose digits 1..6 are 0 or 127, and the corners of the ranges
U64Choices ==
    {[i \in 1..NDigits |-> IF i <= 6 THEN f[i] ELSE 0] : f \in [1..6 -> {0, 127}]}
    \cup {Dig(1), Dig(128), Dig(300), MaxU32, TwoTo32, TwoTo32Plus5,
          [i \in 1..NDigits |-> IF i < NDigits THEN 127 ELSE 1]}

IdleTile ==
    /\ groups = Idle /\ cfg = Idle /\ pc = Idle /\ calls = Idle
    /\ initLen = Idle /\ outcome = Idle /\ tile = Idle

IdleCalls ==
    /\ qin = Idle /\ qout = Idle /\ min = Idle /\ mout = Idle
    /\ pin = Idle /\ pout = Idle /\ lin = Idle /\ lbuf = Idle /\ lout = Idle

otherVars == <<tileVars, indexVars, mergeVars, propsVars, pbfVars>>

InitVarint ==
    /\ fin \in U64Choices
    /\ fout = [stage |-> "none", bytes |-> <<>>]
    /\ rr = Idle
    /\ IdleTile /\ IdleCalls

WriteVarint ==
    /\ fout.stage = "none"
    /\ fout' = [stage |-> "written", bytes |-> finish(writeVarint(NewWriter, fin))]
    /\ UNCHANGED <<fin, rr, otherVars>>

NextVarint == WriteVarint

SpecVarint == InitVarint /\ [][NextVarint]_vars

\* the bytes are one complete varint whose value is v
DecodesTo(bytes, v) ==
    /\ VarintLen(bytes, 1) = Len(bytes)
    /\ ReadVarint(bytes, 1).d = v

\* C11: the bytes writeVarint(v) appends decode, as a little-endian base-128
\* varint, back to exactly v, for every unsigned 64-bit v.
C11_VarintRoundTrip ==
    fout.stage = "written" => DecodesTo(fout.bytes, fin)

\* v below 2^32
BelowTwoTo32(d) == d[5] < 16 /\ \A i \in 6..NDigits : d[i] = 0

\* the values below 2^32 do decode back to themselves
VarintRoundTripBelowTwoTo32 ==
    fout.stage = "written" /\ BelowTwoTo32(fin) => DecodesTo(fout.bytes, fin)


(***************************************************************************)
(* SpecMessage: beginMessage / endMessage of PbfWriter with writes in       *)
(* between.  Bodies reach 2^28 bytes, so buf[0..pos) is held as a sequence  *)
(* of runs: a run is either literal bytes (id 0) or the bytes               *)
(* from..from+n-1 of the payload of the write with number id; id -1 marks   *)
(* the bytes a placeholder reserves, which hold whatever the buffer held.   *)
(***************************************************************************)
MaxCalls == 5
MaxDepth == 2

Lit(bytes)        == [id |-> 0, from |-> 0, n |-> Len(bytes), bytes |-> bytes]
Blob(id, from, n) == [id |-> id, from |-> from, n |-> n, bytes |-> <<>>]
PLACEHOLDER       == -1

RECURSIVE RunsLen(_)
RunsLen(rs) == IF rs = <<>> THEN 0 ELSE Head(rs).n + RunsLen(Tail(rs))

\* the bytes lo..hi-1 of a run
Cut(r, lo, hi) ==
    IF r.id = 0 THEN Lit(SubSeq(r.bytes, lo + 1, hi)) ELSE Blob(r.id, r.from + lo, hi - lo)

\* buf.subarray(a, b): the bytes at the 0-based positions a..b-1
RECURSIVE Slice(_, _, _)
Slice(rs, a, b) ==
    IF rs = <<>> \/ b <= 0 THEN <<>>
    ELSE LET h  == Head(rs)
             lo == Max2(a, 0)
             hi == Min2(b, h.n)
             rest == Slice(Tail(rs), a - h.n, b - h.n)
         IN  IF lo < hi THEN <<Cut(h, lo, hi)>> \o rest ELSE rest

\* adjacent runs that continue each other are one run
RECURSIVE Join(_)
Join(rs) ==
    IF Len(rs) <= 1 THEN rs
    ELSE LET h == rs[1]
             g == rs[2]
             t == SubSeq(rs, 3, Len(rs))
         IN  IF h.id = 0 /\ g.id = 0 THEN Join(<<Lit(h.bytes \o g.bytes)>> \o t)
             ELSE IF h.id = g.id /\ h.id # 0 /\ (h.id = PLACEHOLDER \/ g.from = h.from + h.n)
             THEN Join(<<Blob(h.id, h.from, h.n + g.n)>> \o t)
             ELSE <<h>> \o Join(Tail(rs))

copyWithinNothing(rs, target, start, end) == rs

\* buf.copyWithin(target, start, end) on buf[0..pos)
copyWithinRuns(rs, target, start, end) ==
    Slice(rs, 0, target) \o Slice(rs, start, end)
        \o Slice(rs, target + (end - start), RunsLen(rs))

\* buf[p], buf[p+1], ... = bytes
OverwriteRuns(rs, p, bytes) ==
    Slice(rs, 0, p) \o <<Lit(bytes)>> \o Slice(rs, p + Len(bytes), RunsLen(rs))

\* the writer: buf[0..pos) as runs, and lengthStack
NewRunWriter == [runs |-> <<>>, lengthStack |-> <<>>]

PutRuns(w, rs) == [w EXCEPT !.runs = Join(@ \o rs)]

beginMessageRuns(w, fieldNum) ==
    LET t == PutRuns(w, <<Lit(VarintBytes(Dig(fieldNum * 8 + 2)))>>)
    IN  [runs |-> Join(t.runs \o <<Blob(PLACEHOLDER, 0, 5)>>),
         lengthStack |-> Append(t.lengthStack, RunsLen(t.runs))]

endMessageRuns(w) ==
    LET placeholderPos == Last(w.lengthStack)
        pos            == RunsLen(w.runs)
        messageLen     == pos - placeholderPos - 5
        lenSize        == varintSize(messageLen)
        shifted        == IF lenSize < 5
                          THEN Slice(copyWithinRuns(w.runs, placeholderPos + lenSize,
                                                    placeholderPos + 5, pos),
                                     0, pos - (5 - lenSize))
                          ELSE w.runs
    IN  [runs |-> Join(OverwriteRuns(shifted, placeholderPos, VarintBytes(Dig(messageLen)))),
         lengthStack |-> Front(w.lengthStack)]

\* ---- the calls; fin keeps what was asked for: the number of calls and, per
\* open message, its field number and the runs written into it so far
\* (frame 1 is the top level of the buffer)
WriteSizes   == {1, 127, 16383, 2097151, 268435455}
FieldChoices == {1, 16}

Frame(field, body) == [field |-> field, body |-> body]

InitMessage ==
    /\ fin = [calls |-> 0, frames |-> <<Frame(0, <<>>)>>]
    /\ fout = NewRunWriter
    /\ rr = Idle
    /\ IdleTile /\ IdleCalls

\* the frames with rs appended to the innermost one
Into(frames, rs) == [frames EXCEPT ![Len(frames)].body = @ \o rs]

BeginMessage ==
    /\ fin.calls < MaxCalls
    /\ Len(fin.frames) <= MaxDepth
    /\ \E f \in FieldChoices :
          /\ fout' = beginMessageRuns(fout, f)
          /\ fin' = [calls |-> fin.calls + 1, frames |-> Append(fin.frames, Frame(f, <<>>))]
    /\ UNCHANGED <<rr, otherVars>>

\* any write: n payload bytes of the call with this number
WriteBytes ==
    /\ fin.calls < MaxCalls
    /\ \E n \in WriteSizes :
          /\ fout' = PutRuns(fout, <<Blob(fin.calls + 1, 0, n)>>)
          /\ fin' = [calls |-> fin.calls + 1,
                     frames |-> Into(fin.frames, <<Blob(fin.calls + 1, 0, n)>>)]
    /\ UNCHANGED <<rr, otherVars>>

\* the minimal little-endian base-128 varint of n
RECURSIVE MinVarint(_)
MinVarint(n) == IF n < 128 THEN <<n>> ELSE <<(n % 128) + 128>> \o MinVarint(n \div 128)

\* a message as it has to appear: tag, minimal length varint, body
Message(frame) ==
    <<Lit(MinVarint(frame.field * 8 + 2)), Lit(MinVarint(RunsLen(frame.body)))>> \o frame.body

EndMessage ==
    /\ fin.calls < MaxCalls
    /\ fout.lengthStack # <<>>
    /\ fout' = endMessageRuns(fout)
    /\ fin' = [calls |-> fin.calls + 1,
               frames |-> Into(Front(fin.frames), Message(Last(fin.frames)))]
    /\ UNCHANGED <<rr, otherVars>>

NextMessage == BeginMessage \/ WriteBytes \/ EndMessage

SpecMessage == InitMessage /\ [][NextMessage]_vars

\* what the buffer has to hold: the top level, then every open message as its
\* tag, its five reserved bytes and the body written so far
RECURSIVE Flat(_)
Flat(frames) ==
    IF frames = <<>> THEN <<>>
    ELSE Flat(Front(frames))
         \o (IF Len(frames) = 1 THEN <<>>
             ELSE <<Lit(MinVarint(Last(frames).field * 8 + 2)), Blob(PLACEHOLDER, 0, 5)>>)
         \o Last(frames).body

\* C12: after every properly nested sequence of beginMessage, endMessage and
\* writes, each closed message stands in the buffer as its tag, the minimal
\* varint of its body length and exactly its body, at every nesting depth and
\* for length varints of 1 to 5 bytes, and everything before it is untouched.
C12_MessagesWellFramed ==
    /\ fout.runs = Join(Flat(fin.frames))
    /\ Len(fout.lengthStack) = Len(fin.frames) - 1

\* all messages closed: an inner message whose length takes four bytes, so that
\* one placeholder byte was closed, inside an outer message whose length takes
\* five bytes
C12_Witness ==
    /\ fout.lengthStack = <<>>
    /\ Len(fin.frames) = 1
    /\ Len(fout.runs) = 2
    /\ fout.runs[1].id = 0 /\ Len(fout.runs[1].bytes) = 1 + 5 + 2 + 4
    /\ fout.runs[2].id = 3 /\ fout.runs[2].n = 268435455


(***************************************************************************)
(* SpecGeometry: encodeGeometry(coords, ends, mvtType).  coords is the flat *)
(* Int32Array [x0, y0, x1, y1, ...], ends the exclusive end pair index of   *)
(* each ring or part (the empty sequence stands for null).                  *)
(***************************************************************************)
CMD_MOVE_TO    == 1
CMD_LINE_TO    == 2
CMD_CLOSE_PATH == 7

POINT      == 1
LINESTRING == 2
POLYGON    == 3

\* coords[i] for a 0-based i
At(coords, i) == coords[i + 1]

\* (n << 1) ^ (n >> 31)
zigzag(n) == ZigzagInt32(n)

\* (id & 0x7) | (count << 3)
commandInt(id, count) == (id % 8) + count * 8

\* the loop of getRingBounds from ends[i] on (1-based i)
RECURSIVE RingBoundsLoop(_, _, _)
RingBoundsLoop(ends, i, start) ==
    IF i > Len(ends) THEN <<>>
    ELSE (IF ends[i] > start THEN <<<<start, ends[i]>>>> ELSE <<>>)
         \o RingBoundsLoop(ends, i + 1, ends[i])

getRingBounds(totalPairs, ends) ==
    IF Len(ends) = 0 THEN <<<<0, totalPairs>>>> ELSE RingBoundsLoop(ends, 1, 0)

\* the encoder state: the commands so far and the cursor
Enc(cmds, cx, cy) == [cmds |-> cmds, cx |-> cx, cy |-> cy]

\* cmds.push(zigzag(coords[idx] - cx), zigzag(coords[idx + 1] - cy)); cursor moves
PushVertex(e, coords, idx) ==
    Enc(e.cmds \o <<zigzag(At(coords, idx) - e.cx), zigzag(At(coords, idx + 1) - e.cy)>>,
        At(coords, idx), At(coords, idx + 1))

\* for (i = from; i < to; i++) push the vertex of pair i
RECURSIVE PushPairs(_, _, _, _)
PushPairs(e, coords, from, to) ==
    IF ~(from < to) THEN e
    ELSE Then(<<e, PushPairs(PushVertex(e, coords, from * 2), coords, from + 1, to)>>)

PushCmd(e, c) == [e EXCEPT !.cmds = Append(@, c)]

encodePoints(coords) ==
    PushPairs(Enc(<<commandInt(CMD_MOVE_TO, Len(coords) \div 2)>>, 0, 0),
              coords, 0, Len(coords) \div 2).cmds

\* one iteration of the loop of encodeLines
LineSegment(e, coords, startPair, endPair) ==
    LET numPairs == endPair - startPair
    IN  IF numPairs < 2 THEN e
        ELSE PushPairs(PushCmd(PushVertex(PushCmd(e, commandInt(CMD_MOVE_TO, 1)),
                                          coords, startPair * 2),
                               commandInt(CMD_LINE_TO, numPairs - 1)),
                       coords, startPair + 1, endPair)

\* a cursor that does not persist: every ring starts again from (0, 0)
PolygonRingFromOrigin(e, coords, startPair, endPair) ==
    LET r == LineSegment(Enc(<<>>, 0, 0), coords, startPair, endPair)
    IN  IF endPair - startPair < 3 THEN e
        ELSE Enc(e.cmds \o r.cmds \o <<commandInt(CMD_CLOSE_PATH, 1)>>, r.cx, r.cy)

\* one iteration of the loop of encodePolygons
PolygonRing(e, coords, startPair, endPair) ==
    LET numPairs  == endPair - startPair
        si        == startPair * 2
        lastIdx   == (endPair - 1) * 2
        isClosed  == At(coords, si) = At(coords, lastIdx)
                     /\ At(coords, si + 1) = At(coords, lastIdx + 1)
        lineCount == IF isClosed THEN numPairs - 2 ELSE numPairs - 1
        lineEnd   == IF isClosed THEN endPair - 1 ELSE endPair
    IN  IF numPairs < 3 THEN e
        ELSE IF lineCount < 2 THEN e
        ELSE PushCmd(PushPairs(PushCmd(PushVertex(PushCmd(e, commandInt(CMD_MOVE_TO, 1)),
                                                  coords, si),
                                       commandInt(CMD_LINE_TO, lineCount)),
                               coords, startPair + 1, lineEnd),
                     commandInt(CMD_CLOSE_PATH, 1))

\* for (const [startPair, endPair] of bounds)
RECURSIVE EachBound(_, _, _, _)
EachBound(e, coords, bounds, polygon) ==
    IF bounds = <<>> THEN e
    ELSE Then(<<e, EachBound(IF polygon
                             THEN PolygonRing(e, coords, Head(bounds)[1], Head(bounds)[2])
                             ELSE LineSegment(e, coords, Head(bounds)[1], Head(bounds)[2]),
                             coords, Tail(bounds), polygon)>>)

encodeLines(coords, ends) ==
    EachBound(Enc(<<>>, 0, 0), coords, getRingBounds(Len(coords) \div 2, ends), FALSE).cmds

encodePolygons(coords, ends) ==
    EachBound(Enc(<<>>, 0, 0), coords, getRingBounds(Len(coords) \div 2, ends), TRUE).cmds

encodeGeometry(coords, ends, mvtType) ==
    IF Len(coords) = 0 THEN <<>>
    ELSE CASE mvtType = POINT      -> encodePoints(coords)
           [] mvtType = LINESTRING -> encodeLines(coords, ends)
           [] mvtType = POLYGON    -> encodePolygons(coords, ends)
           [] OTHER                -> <<>>

\* ---- the calls: a feature is given by its rings or parts, each a sequence of
\* vertices <<x, y>>
MaxRings == 3

RingChoices ==
    { <<<<0, 0>>, <<10, 0>>, <<10, 10>>, <<0, 0>>>>,
      <<<<-3, 5>>, <<9, 5>>, <<9, -9>>>>,
      <<<<1, 1>>, <<2, 2>>>>,
      <<<<4, 4>>, <<6, 4>>, <<4, 4>>>>,
      <<<<7, 7>>>>,
      <<>>,
      <<<<20, 20>>, <<30, 20>>, <<30, 30>>, <<20, 30>>, <<20, 20>>>> }

\* x0, y0, x1, y1, ... of all rings
FlatCoords(rings) == Flatten(Flatten(rings))

\* the exclusive end pair index of every ring
EndsOf(rings) == [i \in 1..Len(rings) |-> Len(Flatten(SubSeq(rings, 1, i)))]

InitGeometry ==
    /\ \E n \in 1..MaxRings : \E rings \in [1..n -> RingChoices] :
         \E type \in {POINT, LINESTRING, POLYGON} :
           \E ends \in {EndsOf(rings)} \cup (IF n = 1 THEN {<<>>} ELSE {}) :
             fin = [rings |-> rings, coords |-> FlatCoords(rings), ends |-> ends,
                    type |-> type]
    /\ fout = [stage |-> "none", cmds |-> <<>>]
    /\ rr = Idle
    /\ IdleTile /\ IdleCalls

EncodeGeometry ==
    /\ fout.stage = "none"
    /\ fout' = [stage |-> "encoded", cmds |-> encodeGeometry(fin.coords, fin.ends, fin.type)]
    /\ UNCHANGED <<fin, rr, otherVars>>

NextGeometry == EncodeGeometry

SpecGeometry == InitGeometry /\ [][NextGeometry]_vars

\* ---- replaying a command stream as the MVT specification reads it
UnzigzagInt(z) == IF z % 2 = 0 THEN z \div 2 ELSE -(z \div 2) - 1

Path(verts, closed) == [verts |-> verts, closed |-> closed]

\* the paths after the commands from position p on, the cursor being at c
RECURSIVE Replay(_, _, _, _, _)
Replay(cmds, p, c, k, paths) ==
    IF p > Len(cmds) THEN paths
    ELSE IF k = 0
    THEN \* a command integer
         IF cmds[p] % 8 = CMD_CLOSE_PATH
         THEN Replay(cmds, p + 1, c, 0,
                     [paths EXCEPT ![Len(paths)].closed = TRUE])
         ELSE Replay(cmds, p + 1, c, (IF cmds[p] % 8 = CMD_MOVE_TO THEN 1 ELSE -1)
                                      * (cmds[p] \div 8), paths)
    ELSE \* a parameter pair: k > 0 counts MoveTo, k < 0 counts LineTo
         LET v == <<c[1] + UnzigzagInt(cmds[p]), c[2] + UnzigzagInt(cmds[p + 1])>>
         IN  IF k > 0
             THEN Replay(cmds, p + 2, v, k - 1, Append(paths, Path(<<v>>, FALSE)))
             ELSE Replay(cmds, p + 2, v, k + 1,
                         [paths EXCEPT ![Len(paths)].verts = Append(@, v)])

\* a ring without its repeated last vertex
Unclosed(ring) ==
    IF Len(ring) >= 2 /\ ring[1] = ring[Len(ring)] THEN Front(ring) ELSE ring

\* the paths the feature has to yield
ExpectedPaths(rings, type) ==
    CASE type = POINT ->
           LET all == Flatten([i \in 1..Len(rings) |-> rings[i]])
           IN  [i \in 1..Len(all) |-> Path(<<all[i]>>, FALSE)]
      [] type = LINESTRING ->
           LET kept == SelectSeq(rings, LAMBDA r : Len(r) >= 2)
           IN  [i \in 1..Len(kept) |-> Path(kept[i], FALSE)]
      [] type = POLYGON ->
           LET kept == SelectSeq(rings, LAMBDA r : Len(r) >= 3 /\ Len(Unclosed(r)) >= 3)
           IN  [i \in 1..Len(kept) |-> Path(Unclosed(kept[i]), TRUE)]

\* C13: replaying the emitted commands from the cursor (0,0) yields exactly the
\* vertices of every emitted part or ring in order, closed rings without their
\* repeated last vertex, also behind dropped rings; the closed triangle
\* (0,0),(10,0),(10,10),(0,0) yields [9,0,0,18,20,0,0,20,15].
C13_OneCursorForAllRings ==
    fout.stage = "encoded" =>
        /\ Replay(fout.cmds, 1, <<0, 0>>, 0, <<>>) = ExpectedPaths(fin.rings, fin.type)
        /\ (fin.type = POLYGON /\ fin.rings = <<<<<<0, 0>>, <<10, 0>>, <<10, 10>>, <<0, 0>>>>>>)
              => fout.cmds = <<9, 0, 0, 18, 20, 0, 0, 20, 15>>

\* a polygon of three rings was encoded whose middle ring was dropped as
\* degenerate and whose last ring does not start where the first one ended
C13_Witness ==
    /\ fout.stage = "encoded"
    /\ fin.type = POLYGON
    /\ Len(fin.rings) = 3
    /\ Len(ExpectedPaths(fin.rings, fin.type)) = 2
    /\ Len(fin.rings[1]) >= 3 /\ Len(fin.rings[3]) >= 3
    /\ Len(fin.rings[2]) = 3 /\ Len(Unclosed(fin.rings[2])) = 2
    /\ fin.rings[3][1] # fin.rings[1][Len(fin.rings[1]) - 1]
    /\ Len(fout.cmds) > 9


(***************************************************************************)
(* SpecWinding: correctWinding(coords, ends, geomType, parts) on tile       *)
(* integer coordinates; coords is mutated in place.                         *)
(***************************************************************************)
GT_LineString   == 2
GT_Polygon      == 3
GT_MultiPolygon == 6

\* parts: null or a Uint32Array of indices into ends
NullParts   == [isNull |-> TRUE, idx |-> <<>>]
PartsOf(ix) == [isNull |-> FALSE, idx |-> ix]

\* for (i = start, j = end - 2; i < end; j = i, i += 2) area += ...
RECURSIVE AreaLoop(_, _, _, _, _)
AreaLoop(coords, i, j, end, area) ==
    IF ~(i < end) THEN area
    ELSE AreaLoop(coords, i + 2, i, end,
                  area + (At(coords, i) - At(coords, j)) * (At(coords, i + 1) + At(coords, j + 1)))

signedArea(coords, start, end) == AreaLoop(coords, start, end - 2, end, 0)

\* the swaps of reverseRing from i on
RECURSIVE ReverseLoop(_, _, _, _, _)
ReverseLoop(coords, start, end, half, i) ==
    IF ~(i < half) THEN coords
    ELSE LET li == start + i
             ri == end - 2 - i
         IN  ReverseLoop([coords EXCEPT ![li + 1] = At(coords, ri),
                                        ![li + 2] = At(coords, ri + 1),
                                        ![ri + 1] = At(coords, li),
                                        ![ri + 2] = At(coords, li + 1)],
                         start, end, half, i + 2)

reverseRing(coords, start, end) == ReverseLoop(coords, start, end, (end - start) \div 2, 0)

\* (area > 0) !== clockwise
ensureWinding(coords, start, end, clockwise) ==
    IF (signedArea(coords, start, end) > 0) # clockwise
    THEN reverseRing(coords, start, end)
    ELSE coords

\* the loop of correctWinding over the rings from ring i on (0-based)
RECURSIVE WindingLoop(_, _, _, _, _)
WindingLoop(coords, ends, exteriorSet, i, start) ==
    IF ~(i < Len(ends)) THEN coords
    ELSE WindingLoop(ensureWinding(coords, start, ends[i + 1] * 2, i \in exteriorSet),
                     ends, exteriorSet, i + 1, ends[i + 1] * 2)

correctWinding(coords, ends, geomType, parts) ==
    IF geomType # GT_Polygon /\ geomType # GT_MultiPolygon THEN coords
    ELSE IF Len(ends) <= 1 THEN ensureWinding(coords, 0, Len(coords), TRUE)
    ELSE WindingLoop(coords, ends,
                     IF ~parts.isNull THEN {parts.idx[k] : k \in 1..Len(parts.idx)} ELSE {0},
                     0, 0)

MaxWindingRings == 3

\* Rings in tile-integer coordinates: the square going right, down, left, up
\* and its reverse, a closed triangle and its reverse, three collinear
\* vertices, and a two-vertex ring.
WindingRings ==
    { << <<0, 0>>, <<100, 0>>, <<100, 100>>, <<0, 100>> >>,
      << <<0, 0>>, <<0, 100>>, <<100, 100>>, <<100, 0>> >>,
      << <<10, 10>>, <<40, 10>>, <<40, 30>>, <<10, 10>> >>,
      << <<10, 10>>, <<40, 30>>, <<40, 10>>, <<10, 10>> >>,
      << <<0, 0>>, <<5, 0>>, <<10, 0>> >>,
      << <<3, 4>>, <<7, 9>> >> }

\* parts as decodeGeometry and buildMvtLayer leave it: null, or more than one
\* increasing index into ends
PartsChoices(n) ==
    {NullParts} \cup
    {PartsOf(ix) : ix \in {jx \in UNION {[1..k -> 0..(n - 1)] : k \in 2..n} :
                               \A a \in 1..(Len(jx) - 1) : jx[a] < jx[a + 1]}}

InitWinding ==
    /\ \E n \in 1..MaxWindingRings : \E rings \in [1..n -> WindingRings] :
       \E geomType \in {GT_LineString, GT_Polygon, GT_MultiPolygon} :
       \E parts \in (IF geomType = GT_MultiPolygon THEN PartsChoices(n) ELSE {NullParts}) :
       \E noEnds \in (IF n = 1 THEN BOOLEAN ELSE {FALSE}) :
           fin = [coords   |-> FlatCoords(rings),
                  ends     |-> IF noEnds THEN <<>> ELSE EndsOf(rings),
                  nrings   |-> n,
                  geomType |-> geomType,
                  parts    |-> parts]
    /\ fout = [stage |-> "input"]
    /\ rr = Idle
    /\ IdleTile
    /\ IdleCalls

CorrectWinding ==
    /\ fout.stage = "input"
    /\ fout' = [stage  |-> "corrected",
                coords |-> correctWinding(fin.coords, fin.ends, fin.geomType, fin.parts)]
    /\ UNCHANGED <<fin, rr, otherVars>>

NextWinding == CorrectWinding

SpecWinding == InitWinding /\ [][NextWinding]_vars

\* the rings of the corrected geometry: 0-based index, start and end element
RingStart(r) == IF r = 0 \/ fin.ends = <<>> THEN 0 ELSE fin.ends[r] * 2
RingEnd(r)   == IF fin.ends = <<>> THEN Len(fin.coords) ELSE fin.ends[r + 1] * 2
IsPolygonInput == fin.geomType \in {GT_Polygon, GT_MultiPolygon}
IsExteriorRing(r) ==
    IF fin.parts.isNull THEN r = 0
    ELSE \E k \in 1..Len(fin.parts.idx) : fin.parts.idx[k] = r
Corrected == fout.stage = "corrected" /\ IsPolygonInput

\* The MVT winding rule: the surveyor's formula sum of x[i]*y[i+1] - x[i+1]*y[i]
\* over the ring is positive for a clockwise ring in Y-down tile coordinates
\* (+20000 for (0,0),(100,0),(100,100),(0,100)) and negative for a
\* counter-clockwise one.
RECURSIVE SurveyorLoop(_, _, _, _, _)
SurveyorLoop(coords, start, end, i, acc) ==
    IF ~(i < end) THEN acc
    ELSE LET n == IF i + 2 < end THEN i + 2 ELSE start
         IN  SurveyorLoop(coords, start, end, i + 2,
                          acc + At(coords, i) * At(coords, n + 1) - At(coords, n) * At(coords, i + 1))
SurveyorSum(coords, start, end) == SurveyorLoop(coords, start, end, start, 0)
ClockwiseYDown(coords, start, end)        == SurveyorSum(coords, start, end) > 0
CounterClockwiseYDown(coords, start, end) == SurveyorSum(coords, start, end) < 0

\* C14: after correctWinding every exterior ring is clockwise and every
\* interior ring counter-clockwise in Y-down tile coordinates, and a positive
\* signedArea means clockwise.  Stated for the rings that enclose an area
\* (a ring of area zero has no orientation).
C14_ExteriorClockwiseYDown ==
    Corrected =>
        \A r \in 0..(fin.nrings - 1) :
            LET a == RingStart(r)
                b == RingEnd(r)
            IN  SurveyorSum(fout.coords, a, b) # 0 =>
                    /\ IsExteriorRing(r) => ClockwiseYDown(fout.coords, a, b)
                    /\ ~IsExteriorRing(r) => CounterClockwiseYDown(fout.coords, a, b)
                    /\ signedArea(fout.coords, a, b) > 0 => ClockwiseYDown(fout.coords, a, b)

\* What the code does instead: signedArea is the negated surveyor sum, so the
\* exterior rings come out counter-clockwise in Y-down and the interior rings
\* clockwise.
WindingIsMirrored ==
    Corrected =>
        \A r \in 0..(fin.nrings - 1) :
            LET a == RingStart(r)
                b == RingEnd(r)
            IN  /\ signedArea(fout.coords, a, b) = 0 - SurveyorSum(fout.coords, a, b)
                /\ IsExteriorRing(r) => ~ClockwiseYDown(fout.coords, a, b)
                /\ ~IsExteriorRing(r) => ~CounterClockwiseYDown(fout.coords, a, b)

\* C15: after correctWinding every exterior polygon ring has a strictly
\* positive signedArea and every interior ring a strictly negative one.
C15_StrictShoelaceSigns ==
    Corrected =>
        \A r \in 0..(fin.nrings - 1) :
            LET area == signedArea(fout.coords, RingStart(r), RingEnd(r))
            IN  IF IsExteriorRing(r) THEN area > 0 ELSE area < 0

\* The signs do hold of every ring whose signedArea is not zero.
ShoelaceSignsOfNonDegenerateRings ==
    Corrected =>
        \A r \in 0..(fin.nrings - 1) :
            LET area == signedArea(fout.coords, RingStart(r), RingEnd(r))
            IN  area # 0 => IF IsExteriorRing(r) THEN area > 0 ELSE area < 0


(***************************************************************************)
(* SpecClip: clipFeatures(features, clipBounds).  Coordinates are exact     *)
(* fractions <<numerator, denominator>> in lowest terms with a positive     *)
(* denominator, so that the intersection vertices are computed, not         *)
(* assumed.                                                                 *)
(***************************************************************************)
GT_Point      == 1
GT_MultiPoint == 4
GT_MultiLineString == 5

Abs(n) == IF n < 0 THEN 0 - n ELSE n
RECURSIVE GCD(_, _)
GCD(a, b) == IF b = 0 THEN a ELSE GCD(b, a % b)
Frac(n, d) ==
    LET g == GCD(Abs(n), Abs(d))
        s == IF d < 0 THEN 0 - 1 ELSE 1
    IN  <<(s * n) \div g, (s * d) \div g>>
Whole(n)   == <<n, 1>>
FSub(a, b) == Frac(a[1] * b[2] - b[1] * a[2], a[2] * b[2])
FAdd(a, b) == Frac(a[1] * b[2] + b[1] * a[2], a[2] * b[2])
FMul(a, b) == Frac(a[1] * b[1], a[2] * b[2])
FDiv(a, b) == Frac(a[1] * b[2], a[2] * b[1])
FLt(a, b)  == a[1] * b[2] < b[1] * a[2]
FLe(a, b)  == a[1] * b[2] <= b[1] * a[2]

isPolygonType(t) == t = GT_Polygon \/ t = GT_MultiPolygon
isPointType(t)   == t = GT_Point \/ t = GT_MultiPoint

\* the bounding box of the pairs from element i on; Infinity and -Infinity
\* are the record [inf |-> TRUE] until the first pair is seen
\* the bounding box grown by the pair (x, y)
Grow(box, x, y) ==
    IF box.inf THEN [inf |-> FALSE, minX |-> x, minY |-> y, maxX |-> x, maxY |-> y]
    ELSE [inf |-> FALSE,
          minX |-> IF FLt(x, box.minX) THEN x ELSE box.minX,
          maxX |-> IF FLt(box.maxX, x) THEN x ELSE box.maxX,
          minY |-> IF FLt(y, box.minY) THEN y ELSE box.minY,
          maxY |-> IF FLt(box.maxY, y) THEN y ELSE box.maxY]

RECURSIVE BBoxLoop(_, _, _)
BBoxLoop(xy, i, box) ==
    IF ~(i < Len(xy)) THEN box
    ELSE BBoxLoop(xy, i + 2, Grow(box, At(xy, i), At(xy, i + 1)))
featureBBox(xy) == BBoxLoop(xy, 0, [inf |-> TRUE])

RECURSIVE clipPointsFrom(_, _, _)
clipPointsFrom(xy, i, b) ==
    IF ~(i < Len(xy)) THEN <<>>
    ELSE LET x == At(xy, i)
             y == At(xy, i + 1)
         IN  (IF FLe(b.minX, x) /\ FLe(x, b.maxX) /\ FLe(b.minY, y) /\ FLe(y, b.maxY)
              THEN <<x, y>> ELSE <<>>) \o clipPointsFrom(xy, i + 2, b)
clipPoints(xy, b) == clipPointsFrom(xy, 0, b)

extractRings(xy, ends) ==
    IF Len(ends) <= 1 THEN <<xy>>
    ELSE [i \in 1..Len(ends) |->
             SubSeq(xy, (IF i = 1 THEN 0 ELSE ends[i - 1] * 2) + 1, ends[i] * 2)]

\* an edge end that is off the boundary, in place of the interpolated vertex
addOutsideVertex(out, ax, ay, bx, by, k, axis) ==
    LET a == IF axis = 0 THEN ax ELSE ay
    IN  IF FLt(a, k) \/ FLt(k, a) THEN out \o <<ax, ay>> ELSE out \o <<bx, by>>

\* p + (q - p) * t
Lerp(p, q, t) == FAdd(p, FMul(FSub(q, p), t))

\* the intersection of the edge a -> b with the boundary at k
addIntersection(out, ax, ay, bx, by, k, axis) ==
    IF axis = 0
    THEN out \o <<k, Lerp(ay, by, FDiv(FSub(k, ax), FSub(bx, ax)))>>
    ELSE out \o <<Lerp(ax, bx, FDiv(FSub(k, ay), FSub(by, ay))), k>>

\* a finished line slice is pushed and a new one begun
Flush(st, isPolygon) ==
    IF ~isPolygon /\ Len(st.slice) >= 4
    THEN [results |-> Append(st.results, st.slice), slice |-> <<>>]
    ELSE st

\* one edge of the loop of clipAxis; a and b are the edge ends along the axis
EdgeStep(st, ax, ay, bx, by, a, b, k1, k2, axis, isPolygon) ==
    IF FLe(k1, a) /\ FLe(a, k2)
    THEN IF ~(FLe(k1, b) /\ FLe(b, k2))
         THEN Flush([st EXCEPT !.slice =
                        addIntersection(st.slice \o <<ax, ay>>, ax, ay, bx, by,
                                        IF FLt(b, k1) THEN k1 ELSE k2, axis)],
                    isPolygon)
         ELSE [st EXCEPT !.slice = st.slice \o <<ax, ay>>]
    ELSE IF FLe(k1, b) /\ FLe(b, k2)
    THEN [st EXCEPT !.slice =
             addIntersection(st.slice, ax, ay, bx, by, IF FLt(a, k1) THEN k1 ELSE k2, axis)]
    ELSE IF (FLt(a, k1) /\ FLt(k2, b)) \/ (FLt(k2, a) /\ FLt(b, k1))
    THEN Flush([st EXCEPT !.slice =
                   addIntersection(addIntersection(st.slice, ax, ay, bx, by,
                                                   IF FLt(a, k1) THEN k1 ELSE k2, axis),
                                   ax, ay, bx, by, IF FLt(a, k1) THEN k2 ELSE k1, axis)],
               isPolygon)
    ELSE st

ClipEdge(st, ax, ay, bx, by, k1, k2, axis, isPolygon) ==
    EdgeStep(st, ax, ay, bx, by, IF axis = 0 THEN ax ELSE ay, IF axis = 0 THEN bx ELSE by,
             k1, k2, axis, isPolygon)

RECURSIVE ClipEdges(_, _, _, _, _, _, _)
ClipEdges(st, coords, i, k1, k2, axis, isPolygon) ==
    IF ~(i < Len(coords) - 2) THEN st
    ELSE ClipEdges(ClipEdge(st, At(coords, i), At(coords, i + 1), At(coords, i + 2),
                            At(coords, i + 3), k1, k2, axis, isPolygon),
                   coords, i + 2, k1, k2, axis, isPolygon)

\* the last slice is pushed when it has two pairs or more
PushSlice(results, slice) ==
    IF Len(slice) >= 4 THEN Append(results, slice) ELSE results

\* a polygon slice of three pairs or more is closed on its first pair
CloseSlice(slice, isPolygon) ==
    IF /\ isPolygon
       /\ Len(slice) >= 6
       /\ \/ slice[1] # slice[Len(slice) - 1]
          \/ slice[2] # slice[Len(slice)]
    THEN slice \o <<slice[1], slice[2]>>
    ELSE slice

\* the last point is pushed when it is inside the slab
WithLast(slice, x, y, lastA, k1, k2) ==
    IF FLe(k1, lastA) /\ FLe(lastA, k2) THEN slice \o <<x, y>> ELSE slice

\* clipAxis after its loop over the edges
AfterEdges(st, coords, n, k1, k2, axis, isPolygon) ==
    PushSlice(st.results,
              CloseSlice(WithLast(st.slice, At(coords, n - 2), At(coords, n - 1),
                                  IF axis = 0 THEN At(coords, n - 2) ELSE At(coords, n - 1),
                                  k1, k2),
                         isPolygon))

clipAxis(coords, k1, k2, axis, isPolygon) ==
    IF Len(coords) < 4 THEN <<>>
    ELSE AfterEdges(ClipEdges([results |-> <<>>, slice |-> <<>>], coords, 0, k1, k2, axis, isPolygon),
                    coords, Len(coords), k1, k2, axis, isPolygon)

\* pass 2 of clipRing over the slices of pass 1
clipRingY(xClipped, b, isPolygon) ==
    Flatten([s \in 1..Len(xClipped) |-> clipAxis(xClipped[s], b.minY, b.maxY, 1, isPolygon)])

clipRing(ring, b, isPolygon) ==
    clipRingY(clipAxis(ring, b.minX, b.maxX, 0, isPolygon), b, isPolygon)

\* the clipped rings of one ring that have two pairs or more, with its index
KeptRings(clipped, origin) ==
    [j \in 1..Len(clipped) |-> [ring |-> clipped[j], origin |-> origin]]

\* the clipped rings of all rings with the index of the ring each came from
ClippedRings(rings, b, isPolygon) ==
    Flatten([ringIdx \in 1..Len(rings) |->
                KeptRings(SelectSeq(clipRing(rings[ringIdx], b, isPolygon),
                                    LAMBDA c : Len(c) >= 4),
                          ringIdx - 1)])

\* the indices of the clipped rings that came from an exterior ring
NewPartStarts(cr, parts) ==
    LET ext == {parts.idx[k] : k \in 1..Len(parts.idx)}
        RECURSIVE From(_)
        From(i) == IF i > Len(cr) THEN <<>>
                   ELSE (IF cr[i].origin \in ext THEN <<i - 1>> ELSE <<>>) \o From(i + 1)
    IN  From(1)

NewParts(feature, starts) ==
    IF ~feature.parts.isNull /\ isPolygonType(feature.type) /\ Len(starts) > 1
    THEN PartsOf(starts) ELSE NullParts

\* the feature reassembled from its clipped rings cr
Reassemble(feature, cr) ==
    IF Len(cr) = 0 THEN <<>>
    ELSE <<[feature EXCEPT
              !.xy    = Flatten([i \in 1..Len(cr) |-> cr[i].ring]),
              !.ends  = IF Len(cr) > 1
                        THEN [i \in 1..Len(cr) |->
                                 Len(Flatten([j \in 1..i |-> cr[j].ring])) \div 2]
                        ELSE <<>>,
              !.parts = NewParts(feature, NewPartStarts(cr, feature.parts))]>>

ClippedPoints(feature, clipped) ==
    IF Len(clipped) > 0 THEN <<[feature EXCEPT !.xy = clipped]>> ELSE <<>>

\* what one feature with bounding box fbox adds to the result of clipFeatures
ClipBoxed(feature, fbox, b) ==
    IF fbox.inf \/ FLt(fbox.maxX, b.minX) \/ FLt(b.maxX, fbox.minX)
                \/ FLt(fbox.maxY, b.minY) \/ FLt(b.maxY, fbox.minY)
    THEN <<>>
    ELSE IF FLe(b.minX, fbox.minX) /\ FLe(fbox.maxX, b.maxX)
            /\ FLe(b.minY, fbox.minY) /\ FLe(fbox.maxY, b.maxY)
    THEN <<feature>>
    ELSE IF isPointType(feature.type)
    THEN ClippedPoints(feature, clipPoints(feature.xy, b))
    ELSE Reassemble(feature, ClippedRings(extractRings(feature.xy, feature.ends), b,
                                          isPolygonType(feature.type)))

ClipFeature(feature, b) == ClipBoxed(feature, featureBBox(feature.xy), b)

clipFeatures(features, clipBounds) ==
    Flatten([f \in 1..Len(features) |-> ClipFeature(features[f], clipBounds)])

MaxClipFeatures == 2

RawFeature(type, rings, parts) ==
    [type  |-> type,
     xy    |-> [i \in 1..Len(FlatCoords(rings)) |-> Whole(FlatCoords(rings)[i])],
     ends  |-> IF Len(rings) > 1 THEN EndsOf(rings) ELSE <<>>,
     parts |-> parts]

\* A square larger than the clip box, a triangle with slanted edges across
\* its corners, a square with a hole that leaves the box, two polygon parts,
\* a zigzag line, a line across the whole box, points inside and outside, a
\* triangle inside the box and a line outside of it.
ClipFeatureChoices ==
    { RawFeature(GT_Polygon, << << <<0, 0>>, <<10, 0>>, <<10, 10>>, <<0, 10>>, <<0, 0>> >> >>, NullParts),
      RawFeature(GT_Polygon, << << <<0, 3>>, <<9, 10>>, <<10, 1>>, <<0, 3>> >> >>, NullParts),
      RawFeature(GT_Polygon, << << <<1, 1>>, <<9, 1>>, <<9, 9>>, <<1, 9>>, <<1, 1>> >>,
                                << <<4, 4>>, <<4, 6>>, <<10, 5>>, <<4, 4>> >> >>, NullParts),
      RawFeature(GT_MultiPolygon, << << <<0, 0>>, <<5, 0>>, <<3, 5>>, <<0, 0>> >>,
                                     << <<6, 6>>, <<10, 7>>, <<7, 10>>, <<6, 6>> >> >>, PartsOf(<<0, 1>>)),
      RawFeature(GT_LineString, << << <<0, 5>>, <<5, 9>>, <<10, 4>>, <<5, 0>>, <<3, 10>> >> >>, NullParts),
      RawFeature(GT_MultiLineString, << << <<0, 0>>, <<10, 7>> >>, << <<3, 3>>, <<4, 9>> >> >>, NullParts),
      RawFeature(GT_MultiPoint, << << <<1, 1>>, <<5, 5>>, <<9, 3>> >> >>, NullParts),
      RawFeature(GT_Polygon, << << <<3, 3>>, <<6, 3>>, <<4, 6>>, <<3, 3>> >> >>, NullParts),
      RawFeature(GT_LineString, << << <<0, 0>>, <<1, 10>> >> >>, NullParts) }

ClipBoundsChoices ==
    { Box(Whole(2), Whole(2), Whole(8), Whole(8)), Box(Whole(4), Whole(1), Whole(7), Whole(5)) }

InitClip ==
    /\ \E n \in 1..MaxClipFeatures : \E features \in [1..n -> ClipFeatureChoices] :
       \E clipBounds \in ClipBoundsChoices :
           fin = [features |-> features, clipBounds |-> clipBounds]
    /\ fout = [stage |-> "input"]
    /\ rr = Idle
    /\ IdleTile
    /\ IdleCalls

ClipFeatures ==
    /\ fout.stage = "input"
    /\ fout' = [stage |-> "clipped", result |-> clipFeatures(fin.features, fin.clipBounds)]
    /\ UNCHANGED <<fin, rr, otherVars>>

NextClip == ClipFeatures

SpecClip == InitClip /\ [][NextClip]_vars

InsideClip(x, y) ==
    /\ FLe(fin.clipBounds.minX, x) /\ FLe(x, fin.clipBounds.maxX)
    /\ FLe(fin.clipBounds.minY, y) /\ FLe(y, fin.clipBounds.maxY)

Infinity == <<1, 0>>

\* dx * dx + dy * dy
SqLen(dx, dy) == FAdd(FMul(dx, dx), FMul(dy, dy))

\* the nearest point of the segment for the parameter t, along one coordinate
Nearest(a, b, d, t) ==
    IF FLt(Whole(1), t) THEN b
    ELSE IF FLt(Whole(0), t) THEN FAdd(a, FMul(d, t)) ELSE a

\* sqSegDist for a segment of direction (dx, dy) that is not a point
SqDistAlong(px, py, ax, ay, bx, by, dx, dy, t) ==
    SqLen(FSub(px, Nearest(ax, bx, dx, t)), FSub(py, Nearest(ay, by, dy, t)))

SqDistTo(px, py, ax, ay, bx, by, dx, dy) ==
    IF dx # Whole(0) \/ dy # Whole(0)
    THEN SqDistAlong(px, py, ax, ay, bx, by, dx, dy,
                     FDiv(FAdd(FMul(FSub(px, ax), dx), FMul(FSub(py, ay), dy)), SqLen(dx, dy)))
    ELSE SqLen(FSub(px, ax), FSub(py, ay))

sqSegDist(px, py, ax, ay, bx, by) ==
    SqDistTo(px, py, ax, ay, bx, by, FSub(bx, ax), FSub(by, ay))

\* one vertex of the loop of dpMark: d is its distance to the chord
Farther(st, i, d, posToMid) ==
    IF FLt(st.maxSqDist, d)
    THEN [st EXCEPT !.index = i, !.maxSqDist = d]
    ELSE IF d = st.maxSqDist /\ posToMid < st.minPosToMid
    THEN [st EXCEPT !.index = i, !.minPosToMid = posToMid]
    ELSE st

\* the loop of dpMark over the vertices strictly between first and last
RECURSIVE FarthestLoop(_, _, _, _, _)
FarthestLoop(xy, first, last, i, st) ==
    IF ~(i < last) THEN st
    ELSE FarthestLoop(xy, first, last, i + 1,
             Farther(st, i,
                     sqSegDist(At(xy, i * 2), At(xy, i * 2 + 1),
                               At(xy, first * 2), At(xy, first * 2 + 1),
                               At(xy, last * 2), At(xy, last * 2 + 1)),
                     Abs(i - ((first + last) \div 2))))

\* importance is indexed from 0: importance[i + 1] is the code's importance[i]
RECURSIVE dpMark(_, _, _, _)
RECURSIVE MarkRight(_, _, _, _)
RECURSIVE MarkSplit(_, _, _, _, _)

\* dpMark after its loop found st
MarkSplit(xy, importance, first, last, st) ==
    IF st.index >= 0 /\ FLt(Whole(0), st.maxSqDist)
    THEN MarkRight(xy,
                   IF st.index - first > 1
                   THEN dpMark(xy, [importance EXCEPT ![st.index + 1] = st.maxSqDist],
                               first, st.index)
                   ELSE [importance EXCEPT ![st.index + 1] = st.maxSqDist],
                   st.index, last)
    ELSE importance

MarkRight(xy, importance, index, last) ==
    IF last - index > 1 THEN dpMark(xy, importance, index, last) ELSE importance

dpMark(xy, importance, first, last) ==
    MarkSplit(xy, importance, first, last,
              FarthestLoop(xy, first, last, first + 1,
                           [maxSqDist |-> Whole(0), index |-> 0 - 1,
                            minPosToMid |-> last - first]))

\* the pairs whose importance is above the tolerance
Filter(xy, importance, sqTolerance) ==
    Flatten([i \in 1..Len(importance) |->
                IF FLt(sqTolerance, importance[i])
                THEN <<At(xy, (i - 1) * 2), At(xy, (i - 1) * 2 + 1)>>
                ELSE <<>>])

simplify(xy, sqTolerance) ==
    IF Len(xy) <= 4 THEN xy
    ELSE Filter(xy,
                dpMark(xy,
                       [i \in 1..(Len(xy) \div 2) |->
                           IF i = 1 \/ i = Len(xy) \div 2 THEN Infinity ELSE Whole(0)],
                       0, Len(xy) \div 2 - 1),
                sqTolerance)

MaxVertices == 4

VertexChoices    == {<<0, 0>>, <<0, 1>>, <<1, 0>>, <<3, 2>>, <<0, 2>>, <<2, 2>>}
ToleranceChoices == {Whole(0), <<1, 2>>, Whole(1)}

InitSimplify ==
    /\ \E n \in 2..MaxVertices : \E line \in [1..n -> VertexChoices] :
       \E sqTolerance \in ToleranceChoices :
           fin = [xy          |-> [i \in 1..(2 * n) |-> Whole(Flatten(line)[i])],
                  sqTolerance |-> sqTolerance]
    /\ fout = [stage |-> "input"]
    /\ rr = Idle
    /\ IdleTile
    /\ IdleCalls

Simplify ==
    /\ fout.stage = "input"
    /\ fout' = [stage |-> "once", once |-> simplify(fin.xy, fin.sqTolerance)]
    /\ UNCHANGED <<fin, rr, otherVars>>

SimplifyAgain ==
    /\ fout.stage = "once"
    /\ fout' = [stage |-> "twice", once |-> fout.once,
                twice |-> simplify(fout.once, fin.sqTolerance)]
    /\ UNCHANGED <<fin, rr, otherVars>>

NextSimplify == Simplify \/ SimplifyAgain

SpecSimplify == InitSimplify /\ [][NextSimplify]_vars

\* C17: simplify is idempotent: simplifying the result of simplify again with
\* the same squared tolerance gives exactly the same vertices.
C17_SimplifyIdempotent ==
    fout.stage = "twice" => fout.twice = fout.once


(***************************************************************************)
(* SpecTags: the tag building of buildMvtLayer.  A JavaScript number is     *)
(* [neg, whole, half]: plus or minus (whole + 0.5 if half), so that -0,     *)
(* integers and non-integers are all there.                                 *)
(***************************************************************************)
JsNumber(neg, whole, half) == [kind |-> "number", neg |-> neg, whole |-> whole, half |-> half]
JsString(s)  == [kind |-> "string", s |-> s]
JsBoolean(b) == [kind |-> "boolean", b |-> b]
JsNull       == [kind |-> "null"]
JsBinary     == [kind |-> "Uint8Array"]

IsZero(v) == v.whole = 0 /\ ~v.half

\* String(value) of a string, number or boolean
StringOf(v) ==
    CASE v.kind = "string"  -> v.s
      [] v.kind = "number"  -> (IF v.neg /\ ~IsZero(v) THEN "-" ELSE "")
                               \o ToString(v.whole) \o (IF v.half THEN ".5" ELSE "")
      [] v.kind = "boolean" -> IF v.b THEN "true" ELSE "false"

toMvtValue(value) ==
    CASE value.kind = "string"  -> [type |-> "string", value |-> value]
      [] value.kind = "boolean" -> [type |-> "bool", value |-> value]
      [] value.kind = "number"  ->
            IF ~value.half
            THEN IF ~value.neg \/ IsZero(value)
                 THEN [type |-> "uint", value |-> value]
                 ELSE [type |-> "int", value |-> value]
            ELSE [type |-> "double", value |-> value]
      [] OTHER -> [type |-> "string", value |-> JsString(StringOf(value))]

\* a key that leaves the type out
mvtValueKeyUntyped(v) == StringOf(v.value)

mvtValueKey(v) == v.type \o ":" \o StringOf(v.value)

\* Map.get: a Map is a function on the keys it holds
Has(map, k)    == k \in DOMAIN map
Set(map, k, x) == [j \in DOMAIN map \cup {k} |-> IF j = k THEN x ELSE map[j]]
EmptyMap       == [j \in {} |-> 0]

\* the loop of buildTags from property i on; st holds tags and the four
\* collections shared by the features of the layer
RECURSIVE TagsLoop(_, _, _)
TagsLoop(properties, i, st) ==
    IF i > Len(properties) THEN st
    ELSE LET key   == properties[i].key
             value == properties[i].value
         IN  IF value.kind = "null" \/ value.kind = "Uint8Array"
             THEN TagsLoop(properties, i + 1, st)
             ELSE LET newKey == ~Has(st.keyIndex, key)
                      kIdx   == IF newKey THEN Len(st.keys) ELSE st.keyIndex[key]
                      mvtVal == toMvtValue(value)
                      valKey == mvtValueKey(mvtVal)
                      newVal == ~Has(st.valueIndex, valKey)
                      vIdx   == IF newVal THEN Len(st.values) ELSE st.valueIndex[valKey]
                  IN  TagsLoop(properties, i + 1,
                          [tags       |-> st.tags \o <<kIdx, vIdx>>,
                           keys       |-> IF newKey THEN Append(st.keys, key) ELSE st.keys,
                           keyIndex   |-> IF newKey THEN Set(st.keyIndex, key, kIdx) ELSE st.keyIndex,
                           values     |-> IF newVal THEN Append(st.values, mvtVal) ELSE st.values,
                           valueIndex |-> IF newVal THEN Set(st.valueIndex, valKey, vIdx)
                                          ELSE st.valueIndex])

buildTags(properties, st) == TagsLoop(properties, 1, [st EXCEPT !.tags = <<>>])

\* the loop of buildMvtLayer from feature i on, for features whose geometry
\* has been through the pipeline: encoded says the command stream is not empty
RECURSIVE LayerLoop(_, _, _, _)
LayerLoop(features, i, st, mvtFeatures) ==
    IF i > Len(features) THEN [keys |-> st.keys, values |-> st.values, features |-> mvtFeatures]
    ELSE IF ~features[i].encoded THEN LayerLoop(features, i + 1, st, mvtFeatures)
    ELSE LayerLoop(features, i + 1, buildTags(features[i].properties, st),
                   Append(mvtFeatures,
                          [id |-> features[i].id,
                           tags |-> buildTags(features[i].properties, st).tags]))

buildMvtLayerTags(features) ==
    LayerLoop(features, 1,
              [tags |-> <<>>, keys |-> <<>>, keyIndex |-> EmptyMap,
               values |-> <<>>, valueIndex |-> EmptyMap],
              <<>>)

MaxTagFeatures == 2
MaxProps       == 2

KeyChoices   == {"type", "idx"}
ValueChoices ==
    { JsString("poi"), JsString("5"), JsString("true"), JsBoolean(TRUE),
      JsNumber(FALSE, 5, FALSE), JsNumber(FALSE, 0, FALSE), JsNumber(TRUE, 0, FALSE),
      JsNumber(TRUE, 5, FALSE), JsNumber(FALSE, 5, TRUE), JsNull, JsBinary }

\* the entries of a Map in insertion order: no key twice
PropertiesChoices ==
    {p \in UNION {[1..n -> [key : KeyChoices, value : ValueChoices]] : n \in 0..MaxProps} :
        \A i, j \in 1..Len(p) : i # j => p[i].key # p[j].key}

InitTags ==
    /\ \E n \in 1..MaxTagFeatures :
       \E props \in [1..n -> PropertiesChoices] : \E dropped \in 0..n :
           fin = [features |-> [i \in 1..n |->
                                   [id |-> i, encoded |-> i # dropped, properties |-> props[i]]]]
    /\ fout = [stage |-> "input"]
    /\ rr = Idle
    /\ IdleTile
    /\ IdleCalls

BuildMvtLayer ==
    /\ fout.stage = "input"
    /\ fout' = [stage |-> "built", layer |-> buildMvtLayerTags(fin.features)]
    /\ UNCHANGED <<fin, rr, otherVars>>

NextTags == BuildMvtLayer

SpecTags == InitTags /\ [][NextTags]_vars

\* JavaScript's ===, under which -0 and 0 are one number
StrictEqual(a, b) ==
    /\ a.kind = b.kind
    /\ CASE a.kind = "number"  -> /\ a.whole = b.whole /\ a.half = b.half
                                  /\ (a.neg = b.neg \/ IsZero(a))
         [] a.kind = "string"  -> a.s = b.s
         [] a.kind = "boolean" -> a.b = b.b
         [] OTHER              -> TRUE
SameMvtValue(v, w) == v.type = w.type /\ StrictEqual(v.value, w.value)

\* the properties of a feature that are written: not null, not binary
Written(properties) ==
    SelectSeq(properties, LAMBDA p : p.value.kind \notin {"null", "Uint8Array"})

\* the type and value an MVT value is to have for a property value
HoldsProperty(v, value) ==
    /\ StrictEqual(v.value, value)
    /\ v.type = CASE value.kind = "string"  -> "string"
                  [] value.kind = "boolean" -> "bool"
                  [] value.half             -> "double"
                  [] value.neg /\ ~IsZero(value) -> "int"
                  [] OTHER                  -> "uint"

\* C18: in the layer returned by buildMvtLayer keys has no duplicate string,
\* values has no two entries of the same type and value, every tags array has
\* even length and its (keyIdx, valIdx) pairs index the slots of keys and
\* values that hold the feature's property keys and values, in order.
C18_TagsIndexDeduplicatedTables ==
    fout.stage = "built" =>
        LET layer == fout.layer
            kept  == SelectSeq(fin.features, LAMBDA f : f.encoded)
        IN  /\ \A i, j \in 1..Len(layer.keys) : i # j => layer.keys[i] # layer.keys[j]
            /\ \A i, j \in 1..Len(layer.values) :
                   i # j => ~SameMvtValue(layer.values[i], layer.values[j])
            /\ Len(layer.features) = Len(kept)
            /\ \A f \in 1..Len(layer.features) :
                   LET tags == layer.features[f].tags
                       props == Written(kept[f].properties)
                   IN  /\ Len(tags) % 2 = 0
                       /\ Len(tags) = 2 * Len(props)
                       /\ \A t \in 1..Len(props) :
                              /\ tags[2 * t - 1] \in 0..(Len(layer.keys) - 1)
                              /\ tags[2 * t] \in 0..(Len(layer.values) - 1)
                              /\ layer.keys[tags[2 * t - 1] + 1] = props[t].key
                              /\ HoldsProperty(layer.values[tags[2 * t] + 1], props[t].value)

\* Two features: the first has the numbers 5 and -0; the second has 0 under
\* the key of -0, which shares the slot of -0, and the string "5", which gets
\* a slot of its own next to the number 5.
C18_Witness ==
    /\ fout.stage = "built"
    /\ Len(fout.layer.features) = 2
    /\ Len(fin.features) = 2
    /\ Len(fin.features[2].properties) = 2
    /\ fin.features[2].properties[1].value = JsNumber(FALSE, 0, FALSE)
    /\ fout.layer.keys = <<"idx", "type">>
    /\ Len(fout.layer.values) = 3
    /\ fout.layer.features[1].tags = <<0, 0, 1, 1>>
    /\ fout.layer.features[2].tags = <<1, 1, 0, 2>>
    /\ fout.layer.values[1].type = "uint" /\ fout.layer.values[1].value = JsNumber(FALSE, 5, FALSE)
    /\ fout.layer.values[2].type = "uint" /\ fout.layer.values[2].value = JsNumber(TRUE, 0, FALSE)
    /\ fout.layer.values[3].type = "string" /\ fout.layer.values[3].value = JsString("5")


(***************************************************************************)
(* SpecRanges: one call of readRanges(path, ranges) on a local, HTTP or S3  *)
(* connector, with the reads it issues completing or failing in any order.  *)
(* fin holds the connector and the ranges, rr the state of the call.        *)
(***************************************************************************)
MaxReadRanges     == 3
MaxMaxConcurrency == 2

ReadRangeChoices == {[offset |-> 0, length |-> 3], [offset |-> 100, length |-> 4],
                     [offset |-> 200, length |-> 5]}

\* the bytes of the object behind the path: byte p of it is p mod 256
RangeBytes(offset, length) == [k \in 1..length |-> (offset + k - 1) % 256]

Empty == <<"empty">>

\* the bytes go to the slot after the ones filled so far
StoreInCompletionOrder(results, index, bytes) ==
    LET filled == Cardinality({i \in 1..Len(results) : results[i] # Empty})
    IN  [results EXCEPT ![filled + 1] = bytes]

\* results[item.index] = await this.read(...)
Store(results, index, bytes) == [results EXCEPT ![index + 1] = bytes]

\* a worker that awaits the read of queue item idx; pooled workers go on with
\* the queue, the promises of Promise.all and the single read do not
Awaiting(idx, pooled) == [state |-> "awaiting", item |-> idx, pooled |-> pooled]
Finished(w)           == [w EXCEPT !.state = "done"]

\* readRanges up to its first await: the reads issued synchronously
CallState(connector, maxConcurrency, ranges) ==
    LET n == Len(ranges)
        m == Min2(maxConcurrency, n)
    IN  IF connector = "local"
        THEN [stage   |-> IF n = 0 THEN "resolved" ELSE "running",
              results |-> [i \in 1..n |-> Empty],
              cursor  |-> n,
              workers |-> [w \in 1..n |-> Awaiting(w - 1, FALSE)],
              issued  |-> [i \in 1..n |-> i - 1],
              completed |-> <<>>]
        ELSE IF n = 0
        THEN [stage |-> "resolved", results |-> <<>>, cursor |-> 0, workers |-> <<>>,
              issued |-> <<>>, completed |-> <<>>]
        ELSE IF n = 1
        THEN [stage |-> "running", results |-> <<Empty>>, cursor |-> 1,
              workers |-> <<Awaiting(0, FALSE)>>, issued |-> <<0>>, completed |-> <<>>]
        ELSE [stage   |-> "running",
              results |-> [i \in 1..n |-> Empty],
              cursor  |-> m,
              workers |-> [w \in 1..m |-> Awaiting(w - 1, TRUE)],
              issued  |-> [i \in 1..m |-> i - 1],
              completed |-> <<>>]

InitRanges ==
    /\ \E connector \in {"local", "http", "s3"} :
       \E maxConcurrency \in 1..MaxMaxConcurrency :
       \E n \in 0..MaxReadRanges : \E ranges \in [1..n -> ReadRangeChoices] :
           fin = [connector |-> connector, maxConcurrency |-> maxConcurrency, ranges |-> ranges]
    /\ rr = [stage |-> "called"]
    /\ fout = Idle
    /\ IdleTile
    /\ IdleCalls

ReadRanges ==
    /\ rr.stage = "called"
    /\ rr' = CallState(fin.connector, fin.maxConcurrency, fin.ranges)
    /\ UNCHANGED <<fin, fout, otherVars>>

AllDone(workers) == \A w \in 1..Len(workers) : workers[w].state = "done"

\* the read a worker awaits fulfils: the bytes are stored and a pooled worker
\* takes the next item of the queue or leaves its loop; when the last worker
\* is done the call resolves, unless it has rejected before
ReadCompletes(w) ==
    /\ rr.stage \in {"running", "rejected"}
    /\ w \in 1..Len(rr.workers)
    /\ rr.workers[w].state = "awaiting"
    /\ LET item    == rr.workers[w].item
           r       == fin.ranges[item + 1]
           results == Store(rr.results, item, RangeBytes(r.offset, r.length))
           more    == rr.workers[w].pooled /\ rr.cursor < Len(fin.ranges)
           workers == [rr.workers EXCEPT ![w] = IF more THEN Awaiting(rr.cursor, TRUE)
                                                ELSE Finished(rr.workers[w])]
       IN  rr' = [stage     |-> IF rr.stage = "running" /\ AllDone(workers)
                                THEN "resolved" ELSE rr.stage,
                  results   |-> results,
                  cursor    |-> IF more THEN rr.cursor + 1 ELSE rr.cursor,
                  workers   |-> workers,
                  issued    |-> IF more THEN Append(rr.issued, rr.cursor) ELSE rr.issued,
                  completed |-> Append(rr.completed, item)]
    /\ UNCHANGED <<fin, fout, otherVars>>

\* the read a worker awaits rejects: the worker throws, the call rejects, and
\* the other workers go on
ReadRejects(w) ==
    /\ rr.stage \in {"running", "rejected"}
    /\ w \in 1..Len(rr.workers)
    /\ rr.workers[w].state = "awaiting"
    /\ rr' = [rr EXCEPT !.stage = "rejected", !.workers[w] = Finished(rr.workers[w])]
    /\ UNCHANGED <<fin, fout, otherVars>>

NextRanges ==
    \/ ReadRanges
    \/ \E w \in 1..MaxReadRanges : ReadCompletes(w)
    \/ \E w \in 1..MaxReadRanges : ReadRejects(w)

SpecRanges == InitRanges /\ [][NextRanges]_vars

\* C20: readRanges resolves to an array as long as ranges whose element i is
\* the bytes read for ranges[i], each range having been read exactly once,
\* whatever the order in which the reads completed.
C20_ResultsInInputOrder ==
    rr.stage = "resolved" =>
        /\ Len(rr.results) = Len(fin.ranges)
        /\ \A i \in 1..Len(fin.ranges) :
               /\ rr.results[i] = RangeBytes(fin.ranges[i].offset, fin.ranges[i].length)
               /\ Cardinality({k \in 1..Len(rr.issued) : rr.issued[k] = i - 1}) = 1

\* C29: once a range read of an HttpConnector or S3Connector readRanges call
\* has failed and the call has rejected, no further range read of the call
\* is started.
C29_NoReadStartedAfterRejection ==
    [][(rr.stage = "rejected" /\ fin.connector \in {"http", "s3"})
          => rr'.issued = rr.issued]_vars

\* a pool of two workers read three different ranges and the reads completed
\* in an order that is not the input order
C20_Witness ==
    /\ rr.stage = "resolved"
    /\ fin.connector = "http"
    /\ fin.maxConcurrency = 2
    /\ Len(fin.ranges) = 3
    /\ \A i, j \in 1..3 : i # j => fin.ranges[i] # fin.ranges[j]
    /\ rr.completed = <<1, 2, 0>>


(***************************************************************************)
(* SpecServer: a TileServer whose tile() and tileJSON() callers arrive      *)
(* while its lazy initialization is not started, in flight, failed or done. *)
(* fin is the configured source paths in group and source order; rr is the  *)
(* server: initialized, initPromise (0 for null, else the number of the     *)
(* initialize() run behind it), fgbCaches, the readHeader jobs, the runs of *)
(* initialize() and the callers.                                            *)
(***************************************************************************)
MaxServerSources == 2
MaxCallers       == 3

\* if (this.initPromise) return this.initPromise, left out
InFlightNever(server) == FALSE

\* if (this.initPromise) return this.initPromise
InFlight(server) == server.initPromise # 0

\* the sources initialize() starts a readHeader job for
JobsOf(server, paths) ==
    SelectSeq([i \in 1..Len(paths) |-> [source |-> i, path |-> paths[i]]],
              LAMBDA j : j.path \notin server.fgbCaches)

\* the sources a tile() call has no cache entry for: processSource reads
\* their header itself
Uncached(server, paths) ==
    Cardinality({i \in 1..Len(paths) : paths[i] \notin server.fgbCaches})

\* ensureInitialized() called by a new caller of the given kind
ensureInitialized(server, paths, kind) ==
    IF server.initialized
    THEN [server EXCEPT
             !.callers = Append(@, [kind |-> kind, waits |-> 0, state |-> "served"]),
             !.lateReads = @ + IF kind = "tile" THEN Uncached(server, paths) ELSE 0]
    ELSE IF InFlight(server)
    THEN [server EXCEPT
             !.callers = Append(@, [kind |-> kind, waits |-> server.initPromise,
                                    state |-> "waiting"])]
    ELSE [server EXCEPT
             !.initPromise = Len(server.inits) + 1,
             !.inits   = Append(@, "pending"),
             !.jobs    = @ \o [k \in 1..Len(JobsOf(server, paths)) |->
                                  [source |-> JobsOf(server, paths)[k].source,
                                   path   |-> JobsOf(server, paths)[k].path,
                                   init   |-> Len(server.inits) + 1,
                                   state  |-> "inflight"]],
             !.callers = Append(@, [kind |-> kind, waits |-> Len(server.inits) + 1,
                                    state |-> "waiting"])]

\* the jobs of run init are all done
JobsDone(jobs, init) ==
    \A k \in 1..Len(jobs) : jobs[k].init = init => jobs[k].state = "done"

\* the callers awaiting run init go on in the given state
Wake(callers, init, state) ==
    [c \in 1..Len(callers) |->
        IF callers[c].waits = init /\ callers[c].state = "waiting"
        THEN [callers[c] EXCEPT !.state = state] ELSE callers[c]]

\* Promise.all(jobs) of run init fulfils: initialized is set and the waiting
\* callers go on, tile() callers into processMultiConnectorTile
Fulfil(server, paths, init) ==
    [server EXCEPT
        !.initialized = TRUE,
        !.inits[init] = "fulfilled",
        !.readsAtInit = Len(server.jobs),
        !.callers     = Wake(@, init, "served"),
        !.lateReads   = @ + Uncached(server, paths)
                            * Cardinality({c \in 1..Len(server.callers) :
                                              /\ server.callers[c].waits = init
                                              /\ server.callers[c].state = "waiting"
                                              /\ server.callers[c].kind = "tile"})]

\* run init rejects: initPromise is reset and the waiting callers get the error
Reject(server, init) ==
    [server EXCEPT
        !.initPromise = 0,
        !.inits[init] = "rejected",
        !.failures    = @ + 1,
        !.callers     = Wake(@, init, "failed")]

InitServer ==
    /\ \E n \in 1..MaxServerSources : fin \in [1..n -> {"a.fgb", "b.fgb"}]
    /\ rr = [initialized |-> FALSE, initPromise |-> 0, fgbCaches |-> {},
             jobs |-> <<>>, inits |-> <<>>, callers |-> <<>>,
             lateReads |-> 0, readsAtInit |-> 0, failures |-> 0]
    /\ fout = Idle
    /\ IdleTile
    /\ IdleCalls

\* tile(z, x, y) or tileJSON() is called
Call(kind) ==
    /\ Len(rr.callers) < MaxCallers
    /\ rr' = ensureInitialized(rr, fin, kind)
    /\ UNCHANGED <<fin, fout, otherVars>>

\* an initialize() run without jobs: Promise.all([]) fulfils
EmptyInitDone ==
    /\ rr.initPromise # 0
    /\ rr.inits[rr.initPromise] = "pending"
    /\ JobsDone(rr.jobs, rr.initPromise)
    /\ rr' = Fulfil(rr, fin, rr.initPromise)
    /\ UNCHANGED <<fin, fout, otherVars>>

\* readHeader of job k fulfils: the result is cached; the last job of a
\* pending run fulfils the run
HeaderRead(k) ==
    /\ k \in 1..Len(rr.jobs)
    /\ rr.jobs[k].state = "inflight"
    /\ LET cached == [rr EXCEPT !.jobs[k].state = "done",
                                !.fgbCaches = @ \cup {rr.jobs[k].path}]
           init   == rr.jobs[k].init
       IN  rr' = IF cached.inits[init] = "pending" /\ JobsDone(cached.jobs, init)
                 THEN Fulfil(cached, fin, init)
                 ELSE cached
    /\ UNCHANGED <<fin, fout, otherVars>>

\* readHeader of job k rejects: a pending run rejects with it
HeaderReadFails(k) ==
    /\ k \in 1..Len(rr.jobs)
    /\ rr.jobs[k].state = "inflight"
    /\ rr.failures = 0
    /\ LET failed == [rr EXCEPT !.jobs[k].state = "failed"]
           init   == rr.jobs[k].init
       IN  rr' = IF failed.inits[init] = "pending" THEN Reject(failed, init) ELSE failed
    /\ UNCHANGED <<fin, fout, otherVars>>

NextServer ==
    \/ Call("tile")
    \/ Call("tileJSON")
    \/ EmptyInitDone
    \/ \E k \in 1..(MaxServerSources * MaxCallers) : HeaderRead(k)
    \/ \E k \in 1..(MaxServerSources * MaxCallers) : HeaderReadFails(k)

SpecServer == InitServer /\ [][NextServer]_vars

\* header reads issued for source i of the configuration
ReadsOfSource(i) == Cardinality({k \in 1..Len(rr.jobs) : rr.jobs[k].source = i})
\* header reads issued for a path
ReadsOfPath(path) == Cardinality({k \in 1..Len(rr.jobs) : rr.jobs[k].path = path})
PendingInits == {i \in 1..Len(rr.inits) : rr.inits[i] = "pending"}

\* C21: callers that arrive before the server is initialized share one
\* initialization: at most one run of initialize() is in flight, every waiting
\* caller waits for that run, as long as no read has failed every source's
\* header has been read at most once however many callers there are, and
\* once the server is initialized no header read is issued any more.
C21_CallersShareOneInitialization ==
    /\ Cardinality(PendingInits) <= 1
    /\ \A c \in 1..Len(rr.callers) :
           rr.callers[c].state = "waiting" =>
               rr.callers[c].waits = rr.initPromise /\ rr.initPromise \in PendingInits
    /\ rr.failures = 0 =>
           /\ Len(rr.inits) <= 1
           /\ \A i \in 1..Len(fin) : ReadsOfSource(i) <= 1
    /\ rr.initialized =>
           /\ rr.lateReads = 0
           /\ Len(rr.jobs) = rr.readsAtInit
           /\ \A i \in 1..Len(fin) : fin[i] \in rr.fgbCaches

\* Two callers, a tile() and a tileJSON(), waited for the first run of
\* initialize() over two different paths, and a third caller came after it
\* had succeeded: two header reads in all.
C21_Witness ==
    /\ rr.initialized
    /\ Len(fin) = 2 /\ fin[1] # fin[2]
    /\ Len(rr.callers) = 3
    /\ rr.callers[1].waits = 1 /\ rr.callers[2].waits = 1 /\ rr.callers[3].waits = 0
    /\ rr.callers[1].kind = "tile" /\ rr.callers[2].kind = "tileJSON"
    /\ \A c \in 1..3 : rr.callers[c].state = "served"
    /\ Len(rr.jobs) = 2 /\ Len(rr.inits) = 1

\* C27: initialization reads the header of each distinct path at most once,
\* also on a fresh server with the same path in several sources.
C27_EachPathReadOnce ==
    rr.failures = 0 => \A i \in 1..Len(fin) : ReadsOfPath(fin[i]) <= 1


(***************************************************************************)
(* SpecLocal: the handle pool of a LocalConnector under read and readRanges *)
(* calls whose open(), close() and handle.read() promises settle in any     *)
(* order.  fin is the connector's maxOpenFiles.  rr.handles is the Map in   *)
(* insertion order, rr.opened counts the handles open() has returned (a     *)
(* handle is its number), rr.closed holds the handles close() was called    *)
(* on, rr.reads the read() calls with the await each one stands at.         *)
(***************************************************************************)
MaxOpenFilesChoices == {1, 2}
MaxLocalReads       == 3
LocalPaths          == {"a.fgb", "b.fgb"}

\* handles.get(path): the position of the entry, 0 for undefined
PoolIndex(handles, path) ==
    IF \E i \in 1..Len(handles) : handles[i].path = path
    THEN CHOOSE i \in 1..Len(handles) : handles[i].path = path
    ELSE 0

\* handles.delete(path)
PoolDelete(handles, path) == SelectSeq(handles, LAMBDA e : e.path # path)

\* handles.set(path, handle): a present key keeps its place in the order
PoolSet(handles, path, handle) ==
    IF PoolIndex(handles, path) # 0
    THEN [handles EXCEPT ![PoolIndex(handles, path)].handle = handle]
    ELSE Append(handles, [path |-> path, handle |-> handle])

\* read(path) up to its first await that is not settled at once: a pooled
\* handle is promoted and read from, otherwise open(path, 'r') is awaited
StartRead(pool, path) ==
    IF PoolIndex(pool.handles, path) # 0
    THEN LET existing == pool.handles[PoolIndex(pool.handles, path)].handle
         IN  [pool EXCEPT
                 !.handles = PoolSet(PoolDelete(pool.handles, path), path, existing),
                 !.reads   = Append(@, [path |-> path, at |-> "handle.read",
                                        handle |-> existing])]
    ELSE [pool EXCEPT
             !.reads = Append(@, [path |-> path, at |-> "open", handle |-> 0])]

\* ranges.map(... => this.read(path, offset, length)) over n ranges
RECURSIVE StartReads(_, _, _)
StartReads(pool, path, n) ==
    IF n = 0 THEN pool ELSE StartReads(StartRead(pool, path), path, n - 1)

\* getHandle after open() has returned handle number pool.opened + 1
AfterOpen(pool, r) ==
    LET handle == pool.opened + 1
        set    == PoolSet(pool.handles, pool.reads[r].path, handle)
    IN  IF Len(set) > fin.maxOpenFiles
        THEN [pool EXCEPT
                 !.opened  = handle,
                 !.handles = PoolDelete(set, set[1].path),
                 !.closed  = @ \cup {set[1].handle},
                 !.reads[r] = [@ EXCEPT !.at = "close", !.handle = handle]]
        ELSE [pool EXCEPT
                 !.opened  = handle,
                 !.handles = set,
                 !.reads[r] = [@ EXCEPT !.at = "handle.read", !.handle = handle]]

InitLocal ==
    /\ \E m \in MaxOpenFilesChoices : fin = [maxOpenFiles |-> m]
    /\ rr = [handles |-> <<>>, opened |-> 0, closed |-> {}, reads |-> <<>>]
    /\ fout = Idle
    /\ IdleTile
    /\ IdleCalls

\* connector.read(path, offset, length) is called
LocalRead(path) ==
    /\ Len(rr.reads) < MaxLocalReads
    /\ rr' = StartRead(rr, path)
    /\ UNCHANGED <<fin, fout, otherVars>>

\* connector.readRanges(path, ranges) is called with two ranges
LocalReadRanges(path) ==
    /\ Len(rr.reads) + 2 <= MaxLocalReads
    /\ rr' = StartReads(rr, path, 2)
    /\ UNCHANGED <<fin, fout, otherVars>>

\* await open(path, 'r') of read r settles
Opened(r) ==
    /\ r \in 1..Len(rr.reads)
    /\ rr.reads[r].at = "open"
    /\ rr' = AfterOpen(rr, r)
    /\ UNCHANGED <<fin, fout, otherVars>>

\* await oldestHandle.close() of read r settles: getHandle returns
Evicted(r) ==
    /\ r \in 1..Len(rr.reads)
    /\ rr.reads[r].at = "close"
    /\ rr' = [rr EXCEPT !.reads[r].at = "handle.read"]
    /\ UNCHANGED <<fin, fout, otherVars>>

\* await handle.read(...) of read r settles: read returns
ReadReturns(r) ==
    /\ r \in 1..Len(rr.reads)
    /\ rr.reads[r].at = "handle.read"
    /\ rr' = [rr EXCEPT !.reads[r].at = "returned"]
    /\ UNCHANGED <<fin, fout, otherVars>>

NextLocal ==
    \/ \E path \in LocalPaths : LocalRead(path)
    \/ \E path \in LocalPaths : LocalReadRanges(path)
    \/ \E r \in 1..MaxLocalReads : Opened(r)
    \/ \E r \in 1..MaxLocalReads : Evicted(r)
    \/ \E r \in 1..MaxLocalReads : ReadReturns(r)

SpecLocal == InitLocal /\ [][NextLocal]_vars

NoCallInProgress == \A r \in 1..Len(rr.reads) : rr.reads[r].at = "returned"
OpenHandles == rr.opened - Cardinality(rr.closed)

\* C22: whenever no read or readRanges call is in progress, the number of
\* file handles the connector has opened and not closed is at most
\* maxOpenFiles.
C22_OpenHandlesWithinLimit ==
    NoCallInProgress => OpenHandles <= fin.maxOpenFiles

\* C25: close() is never called on a handle that a read still in progress
\* has obtained from the pool.
C25_NoCloseUnderRead ==
    \A r \in 1..Len(rr.reads) :
        rr.reads[r].at = "handle.read" => rr.reads[r].handle \notin rr.closed


(***************************************************************************)
(* SpecTileId: the ids of all tiles of the zoom levels 0..Z, collected the  *)
(* way the uniqueness test walks them (z, then x, then y).  fin is Z; fout  *)
(* is the walk: the next tile, the Set of ids and the number of tiles added.*)
(***************************************************************************)
MaxZ == 5

\* 1 << z: the shift count is taken modulo 32
ShiftLeftOne(z) == 2 ^ (z % 32)

\* an id with two bits for the zoom level
tileIdTwoBitZoom(z, x, y) == ((ShiftLeftOne(z) * y + x) * 4) + z

\* tileId(z, x, y)
tileId(z, x, y) == ((ShiftLeftOne(z) * y + x) * 32) + z

\* the loop counters after the innermost body has run for (z, x, y)
AfterTile(z, x, y) ==
    IF y + 1 < ShiftLeftOne(z) THEN [z |-> z, x |-> x, y |-> y + 1]
    ELSE IF x + 1 < ShiftLeftOne(z) THEN [z |-> z, x |-> x + 1, y |-> 0]
    ELSE [z |-> z + 1, x |-> 0, y |-> 0]

InitTileId ==
    /\ fin \in [Z : 0..MaxZ]
    /\ fout = [z |-> 0, x |-> 0, y |-> 0, ids |-> {}, added |-> 0]
    /\ rr = Idle
    /\ IdleTile
    /\ IdleCalls

\* ids.add(tileId(z, x, y)) and the loop headers up to the next tile
AddTileId ==
    /\ fout.z <= fin.Z
    /\ fout' = AfterTile(fout.z, fout.x, fout.y) @@
                [ids   |-> fout.ids \cup {tileId(fout.z, fout.x, fout.y)},
                 added |-> fout.added + 1]
    /\ UNCHANGED <<fin, rr, otherVars>>

NextTileId == AddTileId

SpecTileId == InitTileId /\ [][NextTileId]_vars

MaxSmallZigzag == 40
TwoTo30        == 2 ^ 30

ZigzagChoices ==
    (-MaxSmallZigzag..MaxSmallZigzag)
        \cup {-TwoTo30, 1 - TwoTo30, 2 - TwoTo30, -(TwoTo30 \div 2), -16384, -8192, -129, -128,
              127, 128, 8191, 16383, TwoTo30 \div 2, TwoTo30 - 3, TwoTo30 - 2, TwoTo30 - 1}

InitZigzag ==
    /\ fin \in ZigzagChoices
    /\ fout = [stage |-> "none"]
    /\ rr = Idle
    /\ IdleTile
    /\ IdleCalls

\* zigzag(n) and new PbfWriter().writeSVarint(n)
ZigzagEncode ==
    /\ fout.stage = "none"
    /\ fout' = [stage |-> "encoded", z |-> zigzag(fin),
                bytes |-> writeSVarint(NewWriter, fin).buf]
    /\ UNCHANGED <<fin, rr, otherVars>>

\* (z >>> 1) ^ -(z & 1) of the value and of the varint read from the bytes
ZigzagDecode ==
    /\ fout.stage = "encoded"
    /\ fout' = [fout EXCEPT !.stage = "decoded"] @@
               [n      |-> UnzigzagInt(fout.z),
                read   |-> ReadVarint(fout.bytes, 1).d,
                length |-> VarintLen(fout.bytes, 1),
                sn     |-> Unzigzag(ReadVarint(fout.bytes, 1).d)]
    /\ UNCHANGED <<fin, rr, otherVars>>

NextZigzag == ZigzagEncode \/ ZigzagDecode

SpecZigzag == InitZigzag /\ [][NextZigzag]_vars

\* C24: for -2^30 <= n < 2^30, zigzag(n) is a non-negative integer that
\* decodes to n, and writeSVarint(n) writes the varint of that same value,
\* which decodes to n.
C24_ZigzagRoundTrip ==
    /\ fout.stage # "none" => fout.z >= 0
    /\ fout.stage = "decoded" =>
           /\ fout.n = fin
           /\ fout.length = Len(fout.bytes)
           /\ fout.read = Dig(fout.z)
           /\ ~fout.sn.big /\ fout.sn.n = fin

\* The smallest integer of the range, -2^30, has been encoded to 2^31 - 1
\* and decoded.
C24_Witness ==
    fin = -TwoTo30 /\ fout.stage = "decoded" /\ fout.z = 2147483647 /\ Len(fout.bytes) = 5


(***************************************************************************)
(* SpecLevels: the level-counting loops of calcIndexSize (header parsing)   *)
(* and computeLevelBounds (index query), one pass through the loop body per *)
(* step.  fin is the function and the header's featuresCount and            *)
(* indexNodeSize; fout is the position in the function with n and the       *)
(* level sizes counted so far.                                              *)
(***************************************************************************)
MaxLevelFeatures == 5
MaxNodeSize      == 3
MaxLevelSteps    == 6

InitLevels ==
    /\ fin \in [fn : {"calcIndexSize", "computeLevelBounds"},
                featuresCount : 0..MaxLevelFeatures,
                nodeSize : 0..MaxNodeSize]
    /\ fout = [at |-> "called"]
    /\ rr = Idle
    /\ IdleTile
    /\ IdleCalls

\* if (featuresCount === 0 || nodeSize === 0) return, of calcIndexSize and of
\* queryIndex before it calls computeLevelBounds; otherwise the loop is entered
EnterLevels ==
    /\ fout.at = "called"
    /\ fout' = IF fin.featuresCount = 0 \/ fin.nodeSize = 0
               THEN [at |-> "returned", n |-> 0, levelNumNodes |-> <<>>]
               ELSE [at |-> "loop", n |-> fin.featuresCount,
                     levelNumNodes |-> <<fin.featuresCount>>]
    /\ UNCHANGED <<fin, rr, otherVars>>

\* while (n > 1) { n = Math.ceil(n / nodeSize); totalNodes += n }
LevelStep ==
    /\ fout.at = "loop"
    /\ fout.n > 1
    /\ Len(fout.levelNumNodes) < MaxLevelSteps
    /\ fout' = [fout EXCEPT !.n = CeilDiv(fout.n, fin.nodeSize),
                            !.levelNumNodes = Append(@, CeilDiv(fout.n, fin.nodeSize))]
    /\ UNCHANGED <<fin, rr, otherVars>>

\* the loop is left with n <= 1
LevelsReturn ==
    /\ fout.at = "loop"
    /\ fout.n <= 1
    /\ fout' = [fout EXCEPT !.at = "returned"]
    /\ UNCHANGED <<fin, rr, otherVars>>

NextLevels == EnterLevels \/ LevelStep \/ LevelsReturn

SpecLevels == InitLevels /\ [][NextLevels]_vars

\* C26: the loops of calcIndexSize and computeLevelBounds finish for every
\* featuresCount >= 0 and indexNodeSize >= 1: each pass through the loop
\* body leaves n smaller than it was, so that n > 1 fails after finitely
\* many passes.
C26_LevelLoopsTerminate ==
    [][(fout.at = "loop" /\ fout'.at = "loop") => fout'.n < fout.n]_vars


(***************************************************************************)
(* SpecSource: processSource with a cache entry on files of point features  *)
(* of FEATURE_BYTES bytes each, stored in leaf order.  A feature lies       *)
(* inside the tile, in the buffer margin of the clip bounds (its leaf box   *)
(* misses the query box, its point survives the clip) or far away.          *)
(* fin is the file; fout is the returned layer with the features the index  *)
(* query selected.                                                          *)
(***************************************************************************)
MaxSourceFeatures == 4
WideSourceFeatures == 8

LeafBoxOf(kind) ==
    IF kind = "inside" THEN Box(2, 2, 3, 3)
    ELSE IF kind = "margin" THEN Box(4, 2, 4, 2)
    ELSE Box(7, 7, 8, 8)

\* a file whose i-th feature is of kinds[i], with a packed index of node size 2
SourceFile(kinds) ==
    LET fc      == Len(kinds)
        hdrSize == HEADER_MAGIC_SIZE + 4 + HEADER_FB_BYTES
        nodes   == PackedTree([i \in 1..fc |-> LeafBoxOf(kinds[i])], 2, 0,
                              [i \in 1..fc |-> (i - 1) * FEATURE_BYTES])
    IN  [size     |-> hdrSize + Len(nodes) * NODE_ITEM_SIZE + fc * FEATURE_BYTES,
         magicOk  |-> TRUE,
         hdrSize  |-> hdrSize,
         featuresCount |-> fc,
         indexNodeSize |-> 2,
         nodes    |-> nodes,
         points   |-> [i \in 1..fc |-> [inClip |-> kinds[i] # "far", tx |-> 100 * i, ty |-> 7]]]

SourceKindChoices ==
    UNION {[1..n -> {"inside", "margin", "far"}] : n \in 1..MaxSourceFeatures}
        \cup {[i \in 1..WideSourceFeatures |->
                  IF i \in {1, WideSourceFeatures} THEN "inside" ELSE k] : k \in {"margin", "far"}}

\* the features of the leaves a query returned, numbered from 1 in file order
SelectedFeatures(file, header) ==
    LET leaves == MatchingLeafIndices(IndexBytes(file, header.indexSize), header.featuresCount,
                                      header.indexNodeSize, TileBBox)
        leafStart == computeLevelBounds(header.featuresCount, header.indexNodeSize)[1][1]
    IN  {leaves[k] - leafStart + 1 : k \in 1..Len(leaves)}

\* processSource with a cache entry, its readRanges call fulfilled by the
\* connector
SourceLayer(file, header, tileOpts) ==
    LET called == AfterHeader(<<"layer">>, tileOpts, header, IndexBytes(file, header.indexSize))
    IN  IF called.pc = "done" THEN called.outcome.layer
        ELSE AfterRanges(<<"layer">>, tileOpts, file, called.calls[1].ranges).outcome.layer

InitSource ==
    /\ fin \in {SourceFile(kinds) : kinds \in SourceKindChoices}
    /\ fout = [stage |-> "called"]
    /\ rr = Idle
    /\ IdleTile
    /\ IdleCalls

ProcessSource ==
    /\ fout.stage = "called"
    /\ fout' = [stage    |-> "returned",
                selected |-> SelectedFeatures(fin, parseHeader(fin).header),
                layer    |-> SourceLayer(fin, parseHeader(fin).header, DEFAULT_TILE_OPTIONS)]
    /\ UNCHANGED <<fin, rr, otherVars>>

NextSource == ProcessSource

SpecSource == InitSource /\ [][NextSource]_vars

\* the number in file order of the feature behind a layer feature
FeatureNumber(f) == f.geometry[2] \div 200

\* C28: every feature of the layer processSource returns was decoded from a
\* leaf the index query selected.
C28_OnlySelectedFeaturesEmitted ==
    fout.stage = "returned" =>
        \A k \in 1..Len(fout.layer.features) :
            FeatureNumber(fout.layer.features[k]) \in fout.selected


(***************************************************************************)
(* SpecFetch: HttpConnector.fetchWithRetry, one step per await.  fin is     *)
(* retry.attempts; rr is the call: where it stands, the loop counter, the   *)
(* fetches made, lastError, the error of each failed attempt in order, and  *)
(* what the call returned or threw.                                         *)
(***************************************************************************)
MaxRetryAttempts == 3

StatusChoices == {200, 206, 404, 429, 500, 503}
ThrowChoices  == {"network error", "timeout abort"}

NoResult == [kind |-> "none", attempt |-> 0]
HttpError(status, attempt) == [kind |-> ToString(status), attempt |-> attempt]
FetchError(kind, attempt)  == [kind |-> kind, attempt |-> attempt]
Response(status, attempt)  == [kind |-> "response", status |-> status, attempt |-> attempt]

\* response.status >= 500 || response.status === 429
Retryable(status) == status >= 500 \/ status = 429

InitFetch ==
    /\ fin \in [retryAttempts : 0..MaxRetryAttempts]
    /\ rr = [at |-> "called", attempt |-> 0, fetches |-> 0, lastError |-> NoResult,
             errors |-> <<>>, result |-> NoResult]
    /\ fout = Idle
    /\ IdleTile
    /\ IdleCalls

\* the loop is entered and fetch is called, or, with no attempt allowed,
\* throw lastError ?? new Error(`Failed to fetch ...`)
FetchCalled ==
    /\ rr.at = "called"
    /\ rr' = IF 0 < fin.retryAttempts
             THEN [rr EXCEPT !.at = "fetch", !.fetches = 1]
             ELSE [rr EXCEPT !.at = "thrown", !.result = FetchError("Failed to fetch", 0)]
    /\ UNCHANGED <<fin, fout, otherVars>>

\* await fetch(...) fulfils with a response
FetchResponds(status) ==
    /\ rr.at = "fetch"
    /\ rr' = IF Retryable(status)
             THEN IF rr.attempt < fin.retryAttempts - 1
                  THEN [rr EXCEPT !.at = "sleep",
                                  !.lastError = HttpError(status, rr.attempt),
                                  !.errors = Append(@, HttpError(status, rr.attempt))]
                  ELSE [rr EXCEPT !.at = "returned",
                                  !.lastError = HttpError(status, rr.attempt),
                                  !.errors = Append(@, HttpError(status, rr.attempt)),
                                  !.result = Response(status, rr.attempt)]
             ELSE [rr EXCEPT !.at = "returned", !.result = Response(status, rr.attempt)]
    /\ UNCHANGED <<fin, fout, otherVars>>

\* await fetch(...) rejects: a network error or the abort of the timer
FetchThrows(kind) ==
    /\ rr.at = "fetch"
    /\ rr' = IF rr.attempt < fin.retryAttempts - 1
             THEN [rr EXCEPT !.at = "sleep",
                             !.lastError = FetchError(kind, rr.attempt),
                             !.errors = Append(@, FetchError(kind, rr.attempt))]
             ELSE [rr EXCEPT !.at = "thrown",
                             !.attempt = @ + 1,
                             !.lastError = FetchError(kind, rr.attempt),
                             !.errors = Append(@, FetchError(kind, rr.attempt)),
                             !.result = FetchError(kind, rr.attempt)]
    /\ UNCHANGED <<fin, fout, otherVars>>

\* await sleep(...) ends: attempt++ and the next fetch
SleepEnds ==
    /\ rr.at = "sleep"
    /\ rr' = IF rr.attempt + 1 < fin.retryAttempts
             THEN [rr EXCEPT !.at = "fetch", !.attempt = @ + 1, !.fetches = @ + 1]
             ELSE [rr EXCEPT !.at = "thrown", !.attempt = @ + 1, !.result = rr.lastError]
    /\ UNCHANGED <<fin, fout, otherVars>>

NextFetch ==
    \/ FetchCalled
    \/ \E status \in StatusChoices : FetchResponds(status)
    \/ \E kind \in ThrowChoices : FetchThrows(kind)
    \/ SleepEnds

SpecFetch == InitFetch /\ [][NextFetch]_vars

Settled == rr.at \in {"returned", "thrown"}
\* every allowed attempt was made and failed
AttemptsExhausted ==
    Settled /\ fin.retryAttempts >= 1 /\ Len(rr.errors) = fin.retryAttempts

\* C30: fetchWithRetry makes at most retry.attempts fetch attempts, and when
\* every one of them failed (5xx, 429, network error, timeout abort) it
\* throws the error of the last attempt.
C30_ThrowsLastErrorWhenExhausted ==
    /\ rr.fetches <= fin.retryAttempts
    /\ AttemptsExhausted => rr.at = "thrown" /\ rr.result = Last(rr.errors)

====
